---- MODULE Spec2Model ----
(***************************************************************************)
(* Recommendation engine of nself-tv: the collaborative filter, the        *)
(* content-based filter, the hybrid recommender with its result cache, and *)
(* the service process that rebuilds the models while it serves reads.     *)
(*                                                                         *)
(* Numbers are fixed point.  Interaction scores are tenths (watch = 10),   *)
(* community ratings are tenths (8.5 = 85), similarities and every score   *)
(* handed out by a prediction are thousandths (1.0 = 1000).  Matrix and    *)
(* mapping indices are the 0-based indices of the code.                    *)
(***************************************************************************)
EXTENDS Integers, Sequences, FiniteSets, TLC

\* ------------------------------------------------------------------------
\* Python values
\* ------------------------------------------------------------------------

\* Optional[T]: None is the empty tuple, a value x is the 1-tuple <<x>>.
None == <<>>

Some(x) == <<x>>

IsNone(o) == Len(o) = 0

\* The empty dict.
EmptyDict == <<>>

\* The function f itself, with every value computed once.
Computed(f) == f @@ <<>>

\* d[k] = v on a dict d (a function from keys to values).
DictSet(d, k, v) == Computed([x \in (DOMAIN d) \cup {k} |-> IF x = k THEN v ELSE d[x]])

Range(s) == {s[i] : i \in DOMAIN s}

Min2(a, b) == IF a <= b THEN a ELSE b

\* -inf of numpy, below every score the model can compute.
NegInf == -1000000000

RECURSIVE SumOver(_, _)
\* sum of f[x] for x in S
SumOver(S, f) ==
    IF S = {} THEN 0
    ELSE LET x == CHOOSE y \in S : TRUE IN f[x] + SumOver(S \ {x}, f)

RECURSIVE IsqrtIn(_, _, _)
IsqrtIn(x, lo, hi) ==
    IF lo >= hi THEN lo
    ELSE LET mid == (lo + hi + 1) \div 2
         IN IF mid * mid <= x THEN IsqrtIn(x, mid, hi) ELSE IsqrtIn(x, lo, mid - 1)

\* floor of the square root of x, 0 <= x < 2^31
Isqrt(x) == IsqrtIn(x, 0, 46340)

\* cosine of two vectors from their dot product and squared norms, in
\* thousandths; a zero vector has similarity 0 to everything (sklearn's
\* normalize leaves a zero row zero).
Cosine1000(dot, na2, nb2) ==
    IF na2 = 0 \/ nb2 = 0 THEN 0 ELSE (dot * 1000) \div Isqrt(na2 * nb2)

RECURSIVE SortDescIn(_, _)
SortDescIn(S, key) ==
    IF S = {} THEN <<>>
    ELSE LET best == CHOOSE x \in S :
                        \A y \in S : key[x] > key[y] \/ (key[x] = key[y] /\ x >= y)
         IN <<best>> \o SortDescIn(S \ {best}, key)

\* np.argsort(a)[::-1] restricted to the indices S: descending by value.  On
\* the short arrays of this model numpy sorts by insertion (stable), so after
\* the reversal equal values come out highest index first.
ArgsortDesc(S, key) == SortDescIn(S, key)

\* The top-N selection of predict_for_user, recommend_for_user and
\* get_similar_items over an array `a` with index set 0..size-1:
\*   n >= size : np.argsort(a)[::-1]
\*   otherwise : np.argpartition(a, -n)[-n:], then sorted descending.
\* For n = 0 the slice [-0:] is the whole array.  Which of several equal
\* values argpartition keeps is taken as the argsort order.
TopIndices(a, size, n) ==
    LET all == ArgsortDesc(0 .. (size - 1), a)
    IN IF n >= size \/ n = 0 THEN all ELSE SubSeq(all, 1, n)

\* ------------------------------------------------------------------------
\* Collaborative filter (src/models/collaborative.py)
\* ------------------------------------------------------------------------

INTERACTION_WEIGHTS ==
    [watch |-> 10, completed |-> 15, like |-> 20, dislike |-> -10,
     add_to_watchlist |-> 5, skip |-> -5, rate |-> 0]

MAX_SIMILAR_USERS == 50

MIN_USER_INTERACTIONS == 2

\* INTERACTION_WEIGHTS.get(kind, 0.5)
WeightGet(kind) ==
    IF kind \in DOMAIN INTERACTION_WEIGHTS THEN INTERACTION_WEIGHTS[kind] ELSE 5

\* The score of one interaction: rating / 5.0 for an explicit rating, the
\* weight of its kind otherwise (tenths: rating / 5.0 * 10 = rating * 2).
ResolveScore(interaction) ==
    IF interaction.interaction_type = "rate" /\ ~IsNone(interaction.rating)
    THEN interaction.rating[1] * 2
    ELSE WeightGet(interaction.interaction_type)

RECURSIVE FirstSeen(_, _)
\* the distinct values of seq in the order of their first occurrence, after
\* those of acc: the loop over seq, run on its first half and then on its
\* second half
FirstSeen(seq, acc) ==
    IF seq = <<>> THEN acc
    ELSE IF Len(seq) = 1
    THEN IF Head(seq) \in Range(acc) THEN acc ELSE Append(acc, Head(seq))
    ELSE LET Then(first) ==
                 IF Len(first) >= 0
                 THEN FirstSeen(SubSeq(seq, (Len(seq) \div 2) + 1, Len(seq)), first)
                 ELSE first
         IN Then(FirstSeen(SubSeq(seq, 1, Len(seq) \div 2), acc))

\* Indices counted from 1.
IndexFromOne(order) ==
    Computed([k \in Range(order) |-> CHOOSE i \in DOMAIN order : order[i] = k])

\* users[id] = len(users) on first sight: id -> dense index
IndexOf(order) ==
    Computed([k \in Range(order) |-> (CHOOSE i \in DOMAIN order : order[i] = k) - 1])

\* {v: k for k, v in d.items()}
InvertDict(d) ==
    Computed([i \in {d[k] : k \in DOMAIN d} |-> CHOOSE k \in DOMAIN d : d[k] = i])

AssignUsers(interactions) ==
    IndexOf(FirstSeen([n \in DOMAIN interactions |-> interactions[n].user_id], <<>>))

AssignItems(interactions) ==
    IndexOf(FirstSeen([n \in DOMAIN interactions |-> interactions[n].media_id], <<>>))

\* The last occurrence of a pair wins.
ScoreMapLast(interactions, users, items, acc) ==
    LET KeyOf(k) == <<users[interactions[k].user_id], items[interactions[k].media_id]>>
    IN Computed([key \in {KeyOf(k) : k \in DOMAIN interactions} |->
                   ResolveScore(interactions[
                      CHOOSE k \in DOMAIN interactions :
                         /\ KeyOf(k) = key
                         /\ \A j \in DOMAIN interactions : j > k => KeyOf(j) # key])])

RECURSIVE ScoreMap(_, _, _, _)
\* score_map of build_matrix: (u, i) -> the maximum score of its occurrences.
\* The loop over the interactions, run on their first half and then on their
\* second half.
ScoreMap(interactions, users, items, acc) ==
    IF interactions = <<>> THEN acc
    ELSE IF Len(interactions) = 1
    THEN LET it == Head(interactions)
             key == <<users[it.user_id], items[it.media_id]>>
             score == ResolveScore(it)
         IN IF key \notin DOMAIN acc \/ score > acc[key]
            THEN DictSet(acc, key, score) ELSE acc
    ELSE LET Then(first) ==
                 IF DOMAIN first # {}
                 THEN ScoreMap(SubSeq(interactions, (Len(interactions) \div 2) + 1,
                                      Len(interactions)),
                               users, items, first)
                 ELSE first
         IN Then(ScoreMap(SubSeq(interactions, 1, Len(interactions) \div 2),
                          users, items, acc))

\* The csr_matrix: its shape and its stored cells (a stored cell may hold 0).
BuildCsr(interactions, users, items) ==
    [shape |-> <<Cardinality(DOMAIN users), Cardinality(DOMAIN items)>>,
     data |-> ScoreMap(interactions, users, items, EmptyDict)]

Cell(matrix, u, i) ==
    IF <<u, i>> \in DOMAIN matrix.data THEN matrix.data[<<u, i>>] ELSE 0

\* np.diff(matrix.indptr)[u]: the stored cells of row u
RowNnz(matrix, u) == Cardinality({k \in DOMAIN matrix.data : k[1] = u})

\* The state of a CollaborativeFilter after __init__.
CFInit ==
    [user_to_idx |-> EmptyDict, idx_to_user |-> EmptyDict,
     item_to_idx |-> EmptyDict, idx_to_item |-> EmptyDict,
     matrix |-> None, similarity |-> None, is_built |-> FALSE]

\* build_matrix as one call.
BuildMatrix(cf, interactions) ==
    IF interactions = <<>> THEN [cf EXCEPT !.is_built = FALSE]
    ELSE LET users == AssignUsers(interactions)
             items == AssignItems(interactions)
         IN [user_to_idx |-> users, idx_to_user |-> InvertDict(users),
             item_to_idx |-> items, idx_to_item |-> InvertDict(items),
             matrix |-> Some(BuildCsr(interactions, users, items)),
             similarity |-> None, is_built |-> TRUE]

RowDot(matrix, u, v) ==
    LET cols == 0 .. (matrix.shape[2] - 1)
    IN SumOver(cols, [i \in cols |-> Cell(matrix, u, i) * Cell(matrix, v, i)])

\* cosine_similarity(matrix, dense_output=True)
CosineMatrix(matrix) ==
    LET rows == 0 .. (matrix.shape[1] - 1)
        norm2 == Computed([u \in rows |-> RowDot(matrix, u, u)])
    IN Computed([u \in rows |-> Computed([v \in rows |->
          Cosine1000(RowDot(matrix, u, v), norm2[u], norm2[v])])])

\* np.fill_diagonal(sim, 0.0)
FillDiagonal(sim) ==
    Computed([u \in DOMAIN sim |->
                Computed([v \in DOMAIN sim[u] |-> IF u = v THEN 0 ELSE sim[u][v]])])

\* sim[low, :] = 0.0
ZeroRows(sim, low) ==
    Computed([u \in DOMAIN sim |->
                Computed([v \in DOMAIN sim[u] |-> IF u \in low THEN 0 ELSE sim[u][v]])])

\* The columns left as they are.
KeepCols(sim, low) == sim

\* sim[:, low] = 0.0
ZeroCols(sim, low) ==
    Computed([u \in DOMAIN sim |->
                Computed([v \in DOMAIN sim[u] |-> IF v \in low THEN 0 ELSE sim[u][v]])])

\* np.zeros((n, n))
Zeros(n) == [u \in 0 .. (n - 1) |-> [v \in 0 .. (n - 1) |-> 0]]

\* np.where(~mask)[0]: the users with fewer than MIN_USER_INTERACTIONS cells
LowIdxs(matrix) ==
    {u \in 0 .. (matrix.shape[1] - 1) : RowNnz(matrix, u) < MIN_USER_INTERACTIONS}

\* The guard of compute_user_similarity.
CFCanComputeSimilarity(cf) == ~IsNone(cf.matrix) /\ cf.is_built

\* compute_user_similarity as one call.
ComputeUserSimilarity(cf) ==
    IF ~CFCanComputeSimilarity(cf) THEN cf
    ELSE LET m == cf.matrix[1]
             n_users == m.shape[1]
             low == LowIdxs(m)
         IN IF n_users = 0 THEN [cf EXCEPT !.similarity = Some(<<>>)]
            ELSE IF Cardinality(low) = n_users
            THEN [cf EXCEPT !.similarity = Some(Zeros(n_users))]
            ELSE [cf EXCEPT !.similarity =
                     Some(ZeroCols(ZeroRows(FillDiagonal(CosineMatrix(m)), low), low))]

\* READY taken for BUILT.
CFBuiltOnly(c) == c.is_built

CFIsReady(c) == c.is_built /\ ~IsNone(c.similarity)

CFUserCount(cf) == Cardinality(DOMAIN cf.user_to_idx)

CFItemCount(cf) == Cardinality(DOMAIN cf.item_to_idx)

\* What a call returns: its value, or the exception it raised.
Ok(v) == [raised |-> "none", value |-> v]

Raise(e) == [raised |-> e, value |-> <<>>]

\* Every candidate kept, whatever its score.
RankEvery(top, scores, idx_to_item, acc) ==
    Ok([k \in DOMAIN top |->
          <<IF top[k] \in DOMAIN idx_to_item THEN idx_to_item[top[k]] ELSE "", scores[top[k]]>>])

RECURSIVE RankResults(_, _, _, _)
\* The result loop shared by the three prediction methods: walk the indices
\* in rank order, stop at the first score that is <= 0 or infinite, map each
\* index to its id through idx_to_item.  round(score, 4) keeps every digit
\* the thousandths of this model carry.
RankResults(top, scores, idx_to_item, acc) ==
    IF top = <<>> THEN Ok(acc)
    ELSE IF scores[Head(top)] <= 0 THEN Ok(acc)
    ELSE IF Head(top) \notin DOMAIN idx_to_item THEN Raise("KeyError")
    ELSE RankResults(Tail(top), scores, idx_to_item,
                     Append(acc, <<idx_to_item[Head(top)], scores[Head(top)]>>))

\* Every user of positive similarity, however many.
EveryCandidate(sim_scores) == {v \in DOMAIN sim_scores : sim_scores[v] > 0}

\* The neighbours of predict_for_user: every user with similarity > 0, cut to
\* the MAX_SIMILAR_USERS most similar ones when there are more.
SimilarUsers(sim_scores) ==
    LET candidates == {v \in DOMAIN sim_scores : sim_scores[v] > 0}
    IN IF Cardinality(candidates) > MAX_SIMILAR_USERS
       THEN Range(SubSeq(ArgsortDesc(candidates, sim_scores), 1, MAX_SIMILAR_USERS))
       ELSE candidates

\* predicted[i] of predict_for_user, already-seen items forced to -inf
PredictedScores(matrix, u_idx, neighbours, sim_scores) ==
    LET sim_total == SumOver(neighbours, sim_scores)
    IN Computed([i \in 0 .. (matrix.shape[2] - 1) |->
          IF Cell(matrix, u_idx, i) # 0 THEN NegInf
          ELSE (SumOver(neighbours,
                        [v \in neighbours |-> sim_scores[v] * Cell(matrix, v, i)]) * 100)
               \div sim_total])

\* No check for an unknown user.
CFAnyUser(c, user_id) == FALSE

\* `if user_id not in self._user_to_idx`
CFUnknownUser(c, user_id) == user_id \notin DOMAIN c.user_to_idx

\* CollaborativeFilter.predict_for_user
PredictForUser(c, user_id, n) ==
    IF ~c.is_built \/ IsNone(c.matrix) \/ IsNone(c.similarity) THEN Ok(<<>>)
    ELSE IF CFUnknownUser(c, user_id) THEN Ok(<<>>)
    ELSE IF user_id \notin DOMAIN c.user_to_idx THEN Raise("KeyError")
    ELSE LET u_idx == c.user_to_idx[user_id]
             matrix == c.matrix[1]
             sim == c.similarity[1]
         IN IF u_idx \notin DOMAIN sim THEN Raise("IndexError")
            ELSE LET neighbours == SimilarUsers(sim[u_idx])
                 IN IF neighbours = {} THEN Ok(<<>>)
                    ELSE IF \E v \in neighbours \cup {u_idx} : v >= matrix.shape[1]
                    THEN Raise("IndexError")
                    ELSE IF SumOver(neighbours, sim[u_idx]) = 0 THEN Ok(<<>>)
                    ELSE LET predicted ==
                                 PredictedScores(matrix, u_idx, neighbours, sim[u_idx])
                         IN RankResults(TopIndices(predicted, matrix.shape[2], n),
                                        predicted, c.idx_to_item, <<>>)

\* ------------------------------------------------------------------------
\* Content-based filter (src/models/content_based.py)
\* ------------------------------------------------------------------------

TFIDF_MAX_FEATURES == 5000

\* TFIDF_MAX_DF = 0.95, in hundredths
TFIDF_MAX_DF == 95

TFIDF_MIN_DF == 1

\* Words of sklearn's English stop list that the inputs of this model use.
ENGLISH_STOP_WORDS == {"the", "and"}

\* The quality bucket of a community rating (tenths).
RatingBucket(rating) ==
    IF rating >= 80 THEN "highly_rated"
    ELSE IF rating >= 60 THEN "well_rated"
    ELSE IF rating >= 40 THEN "average_rated"
    ELSE "low_rated"

\* _build_document: the tokens of the document.  item.genres is the sequence
\* of the genre names of the comma-separated string.
BuildDocument(item) ==
    LET parts == (IF item.genres # <<>> THEN item.genres \o item.genres ELSE <<>>)
                 \o (IF item.media_type # "" /\ item.media_type # "unknown"
                     THEN <<item.media_type>> ELSE <<>>)
                 \o (IF ~IsNone(item.community_rating)
                     THEN <<RatingBucket(item.community_rating[1])>> ELSE <<>>)
    IN IF parts # <<>> THEN parts ELSE <<"unknown">>

\* The analyzer of the vectorizer: stop words dropped, then 1- and 2-grams.
Tokens(doc) == SelectSeq(doc, LAMBDA t : t \notin ENGLISH_STOP_WORDS)

Terms(toks) ==
    {<<toks[i]>> : i \in 1 .. Len(toks)}
        \cup {<<toks[i], toks[i + 1]>> : i \in 1 .. (Len(toks) - 1)}

\* term frequency of a term in a token sequence
TermCount(toks, term) ==
    IF Len(term) = 1
    THEN Cardinality({i \in 1 .. Len(toks) : toks[i] = term[1]})
    ELSE Cardinality({i \in 1 .. (Len(toks) - 1) :
                         toks[i] = term[1] /\ toks[i + 1] = term[2]})

\* number of documents that hold the term
DocFreq(documents, term) ==
    Cardinality({d \in DOMAIN documents : term \in Terms(Tokens(documents[d]))})

\* every term of the corpus
RawVocabulary(documents) ==
    UNION {Terms(Tokens(documents[d])) : d \in DOMAIN documents}

\* effective_max_df in hundredths: TFIDF_MAX_DF from 3 documents on, else 1.0
EffectiveMaxDf(n_docs) == IF n_docs >= 3 THEN TFIDF_MAX_DF ELSE 100

EffectiveMinDf(n_docs) == IF n_docs >= 3 THEN TFIDF_MIN_DF ELSE 1

\* TfidfVectorizer(...) as configured for a corpus of n_docs documents
NewVectorizer(n_docs) ==
    [max_features |-> TFIDF_MAX_FEATURES, min_df |-> EffectiveMinDf(n_docs),
     max_df |-> EffectiveMaxDf(n_docs)]

\* The vocabulary a vectorizer keeps: the terms whose document frequency is
\* within min_df .. max_df * n_docs.  (max_features cuts a vocabulary of more
\* than 5000 terms, which no corpus of this model has.)
Vocabulary(documents, vectorizer) ==
    LET n_docs == Len(documents)
    IN {t \in RawVocabulary(documents) :
            /\ DocFreq(documents, t) * 100 <= vectorizer.max_df * n_docs
            /\ DocFreq(documents, t) >= vectorizer.min_df}

\* fit_transform raises ValueError when no term is found or none survives.
FitRaises(documents, vectorizer) == Vocabulary(documents, vectorizer) = {}

\* 10 * ln(k), rounded
Ln10(k) == <<0, 7, 11, 14, 16, 18, 19, 21, 22, 23, 24, 25>>[k]

\* smoothed idf, ln((1 + n) / (1 + df)) + 1, in tenths
Idf10(n_docs, df) == 10 + Ln10(1 + n_docs) - Ln10(1 + df)

\* The tf-idf matrix: one row of term weights per document.  The rows are
\* left unnormalised; the cosine below divides by their norms.
FitTransform(documents, vectorizer) ==
    LET vocab == Vocabulary(documents, vectorizer)
        idf == Computed([t \in vocab |-> Idf10(Len(documents), DocFreq(documents, t))])
    IN [shape |-> <<Len(documents), Cardinality(vocab)>>,
        rows |-> Computed([d \in 0 .. (Len(documents) - 1) |->
                    Computed([t \in vocab |->
                                TermCount(Tokens(documents[d + 1]), t) * idf[t]])])]

FeatureDot(tfidf, a, b) ==
    SumOver(DOMAIN tfidf.rows[a], [t \in DOMAIN tfidf.rows[a] |-> tfidf.rows[a][t] * tfidf.rows[b][t]])

\* cosine_similarity(tfidf_matrix, dense_output=True)
ItemCosineMatrix(tfidf) ==
    LET rows == 0 .. (tfidf.shape[1] - 1)
        norm2 == Computed([a \in rows |-> FeatureDot(tfidf, a, a)])
    IN Computed([a \in rows |-> Computed([b \in rows |->
          Cosine1000(FeatureDot(tfidf, a, b), norm2[a], norm2[b])])])

\* The state of a ContentBasedFilter after __init__.  item_metadata is the
\* dict in insertion order, as the sequence of its values (each holds its id).
CBFInit ==
    [item_to_idx |-> EmptyDict, idx_to_item |-> EmptyDict, item_metadata |-> <<>>,
     tfidf_matrix |-> None, similarity |-> None, vectorizer |-> None,
     is_built |-> FALSE]

\* item_metadata[item.id] = item: replace in place, or append a new key
MetadataSet(metadata, item) ==
    IF \E k \in DOMAIN metadata : metadata[k].id = item.id
    THEN Computed([k \in DOMAIN metadata |->
                     IF metadata[k].id = item.id THEN item ELSE metadata[k]])
    ELSE Append(metadata, item)

RECURSIVE IndexItems(_, _, _)
\* The loop of build_feature_matrix over enumerate(media_items), from idx on.
IndexItems(c, media_items, idx) ==
    IF idx >= Len(media_items) THEN c
    ELSE LET item == media_items[idx + 1]
         IN IndexItems([c EXCEPT !.item_to_idx = DictSet(@, item.id, idx),
                                 !.idx_to_item = DictSet(@, idx, item.id),
                                 !.item_metadata = MetadataSet(@, item)],
                       media_items, idx + 1)

Documents(media_items) == [k \in DOMAIN media_items |-> BuildDocument(media_items[k])]

\* build_feature_matrix as one call: the filter it leaves, and whether the
\* call raised (the state is then the one the raise left behind).
BuildFeatureMatrix(c, media_items) ==
    IF media_items = <<>> THEN [raised |-> "none", state |-> [c EXCEPT !.is_built = FALSE]]
    ELSE LET indexed == IndexItems([c EXCEPT !.item_to_idx = EmptyDict,
                                             !.idx_to_item = EmptyDict,
                                             !.item_metadata = <<>>],
                                   media_items, 0)
             fitted == [indexed EXCEPT !.vectorizer = Some(NewVectorizer(Len(media_items)))]
         IN IF FitRaises(Documents(media_items), fitted.vectorizer[1])
            THEN [raised |-> "ValueError", state |-> fitted]
            ELSE [raised |-> "none",
                  state |-> [fitted EXCEPT
                               !.tfidf_matrix = Some(FitTransform(Documents(media_items),
                                                                  fitted.vectorizer[1])),
                               !.similarity = None,
                               !.is_built = TRUE]]

\* The guard of compute_item_similarity.
CBFCanComputeSimilarity(c) == ~IsNone(c.tfidf_matrix) /\ c.is_built

\* compute_item_similarity as one call.
ComputeItemSimilarity(c) ==
    IF ~CBFCanComputeSimilarity(c) THEN c
    ELSE IF c.tfidf_matrix[1].shape[1] = 0 THEN [c EXCEPT !.similarity = Some(<<>>)]
    ELSE [c EXCEPT !.similarity = Some(FillDiagonal(ItemCosineMatrix(c.tfidf_matrix[1])))]

CBFIsReady(c) == c.is_built /\ ~IsNone(c.similarity)

CBFItemCount(c) == Cardinality(DOMAIN c.item_to_idx)

CBFFeatureCount(c) == IF ~IsNone(c.tfidf_matrix) THEN c.tfidf_matrix[1].shape[2] ELSE 0

\* watched_indices: the indices of the watched ids the model knows, in order
WatchedIndices(c, watched_item_ids) ==
    LET known == SelectSeq(watched_item_ids, LAMBDA mid : mid \in DOMAIN c.item_to_idx)
    IN Computed([k \in DOMAIN known |-> c.item_to_idx[known[k]]])

\* ContentBasedFilter.recommend_for_user
RecommendForUser(c, user_id, watched_item_ids, n) ==
    IF ~c.is_built \/ IsNone(c.similarity) \/ watched_item_ids = <<>> THEN Ok(<<>>)
    ELSE LET sim == c.similarity[1]
             n_items == Cardinality(DOMAIN sim)
             watched_indices == WatchedIndices(c, watched_item_ids)
         IN IF watched_indices = <<>> THEN Ok(<<>>)
            ELSE IF \E k \in DOMAIN watched_indices : watched_indices[k] \notin DOMAIN sim
            THEN Raise("IndexError")
            ELSE LET aggregated ==
                         Computed([i \in 0 .. (n_items - 1) |->
                            IF i \in Range(watched_indices) THEN NegInf
                            ELSE SumOver(DOMAIN watched_indices,
                                         [k \in DOMAIN watched_indices |->
                                            sim[watched_indices[k]][i]])
                                 \div Len(watched_indices)])
                 IN RankResults(TopIndices(aggregated, n_items, n),
                                aggregated, c.idx_to_item, <<>>)

\* ContentBasedFilter.get_similar_items
GetSimilarItems(c, media_id, n) ==
    IF ~c.is_built \/ IsNone(c.similarity) \/ media_id \notin DOMAIN c.item_to_idx
    THEN Ok(<<>>)
    ELSE LET sim == c.similarity[1]
             idx == c.item_to_idx[media_id]
         IN IF idx \notin DOMAIN sim THEN Raise("IndexError")
            ELSE RankResults(TopIndices(sim[idx], Cardinality(DOMAIN sim[idx]), n),
                             sim[idx], c.idx_to_item, <<>>)

\* ------------------------------------------------------------------------
\* Result cache (src/cache.py)
\* ------------------------------------------------------------------------

\* json.dumps of a recommendation list: each dict becomes the text of its
\* three fields in order.
JsonDumps(recommendations) ==
    [k \in DOMAIN recommendations |->
        <<recommendations[k].media_id, recommendations[k].score, recommendations[k].reason>>]

\* json.loads of such a text
JsonLoads(raw) ==
    [k \in DOMAIN raw |-> [media_id |-> raw[k][1], score |-> raw[k][2], reason |-> raw[k][3]]]

\* The RedisError of client.get, had get_cached let it through.
RedisErrorPropagates == Raise("RedisError")

\* `except redis.RedisError` of get_cached: a warning, and None
OnRedisGetError == Ok(None)

\* get_cached(key): the stored list, or None on a miss.  redis_ok = FALSE is
\* client.get raising redis.RedisError, which is caught and answered None.
GetCached(store, key, redis_ok) ==
    IF ~redis_ok THEN OnRedisGetError
    ELSE IF IsNone(store[key]) THEN Ok(None)
    ELSE Ok(Some(JsonLoads(store[key][1])))

\* `except redis.RedisError` of set_cached: a warning, and False
OnRedisSetError(store) == [raised |-> "none", value |-> FALSE, store |-> store]

\* An empty list stored under the key.
SetCachedEmpty(store, key, value, redis_ok) ==
    [raised |-> "none", value |-> TRUE, store |-> [store EXCEPT ![key] = Some(<<>>)]]

\* set_cached(key, value, ttl): the store afterwards and the value returned;
\* a RedisError of client.setex is caught and answered False.
SetCached(store, key, value, redis_ok) ==
    IF ~redis_ok THEN OnRedisSetError(store)
    ELSE [raised |-> "none", value |-> TRUE,
          store |-> [store EXCEPT ![key] = Some(JsonDumps(value))]]

\* ------------------------------------------------------------------------
\* Hybrid recommender (src/models/hybrid.py)
\* ------------------------------------------------------------------------

\* config.collaborative_weight = 0.6, in tenths
COLLABORATIVE_WEIGHT == 6

\* config.content_weight = 0.4, in tenths
CONTENT_WEIGHT == 4

RECURSIVE SeqMax(_)
SeqMax(values) ==
    IF Len(values) = 1 THEN values[1]
    ELSE LET m == SeqMax(Tail(values)) IN IF values[1] >= m THEN values[1] ELSE m

\* The minimum taken for 0.
ZeroFloor(values) == 0

RECURSIVE SeqMin(_)
SeqMin(values) ==
    IF Len(values) = 1 THEN values[1]
    ELSE LET m == SeqMin(Tail(values)) IN IF values[1] <= m THEN values[1] ELSE m

\* _normalize: min-max to [0, 1]; 0.5 each when all scores are equal
Normalize(scores) ==
    IF scores = <<>> THEN <<>>
    ELSE LET values == [k \in DOMAIN scores |-> scores[k][2]]
             lo == SeqMin(values)
             hi == SeqMax(values)
             span == hi - lo
         IN IF span = 0 THEN Computed([k \in DOMAIN scores |-> <<scores[k][1], 500>>])
            ELSE Computed([k \in DOMAIN scores |->
                             <<scores[k][1], ((scores[k][2] - lo) * 1000) \div span>>])

\* The list left in its order.
Unsorted(seq) == seq

RECURSIVE StableSortDesc(_)
\* list.sort(key=lambda x: x[1], reverse=True): descending by the second
\* field, equal keys in their original order
StableSortDesc(seq) ==
    IF seq = <<>> THEN <<>>
    ELSE LET first == CHOOSE k \in DOMAIN seq :
                          /\ \A j \in DOMAIN seq : seq[k][2] >= seq[j][2]
                          /\ \A j \in 1 .. (k - 1) : seq[j][2] < seq[k][2]
         IN <<seq[first]>>
              \o StableSortDesc(SubSeq(seq, 1, first - 1) \o SubSeq(seq, first + 1, Len(seq)))

\* The last score a list holds for an id (the dict assignment of the merge
\* loop overwrites), 0.0 when the list does not hold the id.
NormedScore(normed, media_id) ==
    IF \E k \in DOMAIN normed : normed[k][1] = media_id
    THEN normed[CHOOSE k \in DOMAIN normed :
                    /\ normed[k][1] = media_id
                    /\ \A j \in DOMAIN normed : normed[j][1] = media_id => j <= k][2]
    ELSE 0

\* _merge_scores
MergeScores(cf_results, cb_results) ==
    LET cf_normed == Normalize(cf_results)
        cb_normed == Normalize(cb_results)
        ids == FirstSeen([k \in DOMAIN cf_normed |-> cf_normed[k][1]]
                           \o [k \in DOMAIN cb_normed |-> cb_normed[k][1]], <<>>)
        results == Computed([k \in DOMAIN ids |->
                      LET cfs == NormedScore(cf_normed, ids[k])
                          cbs == NormedScore(cb_normed, ids[k])
                      IN <<ids[k],
                           (COLLABORATIVE_WEIGHT * cfs + CONTENT_WEIGHT * cbs) \div 10,
                           IF cfs >= cbs THEN "users_like_you" ELSE "similar_to_watched">>])
    IN StableSortDesc(results)

\* No fallback at all.
NoFallback(c, watch_history, limit) == <<>>

\* _popularity_fallback; watch_history is what get_user_watch_history returned
PopularityFallback(c, watch_history, limit) ==
    IF c.item_metadata = <<>> THEN <<>>
    ELSE LET unwatched == SelectSeq(c.item_metadata, LAMBDA item : item.id \notin Range(watch_history))
             rated_items == StableSortDesc(
                 [k \in DOMAIN unwatched |->
                    <<unwatched[k].id,
                      IF ~IsNone(unwatched[k].community_rating)
                      THEN unwatched[k].community_rating[1] ELSE 0>>])
         IN IF rated_items = <<>> THEN <<>>
            ELSE LET max_rating == IF rated_items[1][2] > 0 THEN rated_items[1][2] ELSE 10
                     top == SubSeq(rated_items, 1, Min2(limit, Len(rated_items)))
                 IN [k \in DOMAIN top |->
                       <<top[k][1], (top[k][2] * 1000) \div max_rating, "popular">>]

\* _format_results
FormatResults(merged) ==
    [k \in DOMAIN merged |->
        [media_id |-> merged[k][1], score |-> merged[k][2], reason |-> merged[k][3]]]

\* The list left whole.
NoTruncate(seq, limit) == seq

\* seq[:limit], limit >= 0
Truncate(seq, limit) == SubSeq(seq, 1, Min2(limit, Len(seq)))

\* f"recs:{user_id}"
CacheKey(user_id) == <<"recs", user_id>>

\* get_recommendations after the cache lookup answered None: the sub-model
\* calls, the merge, the fallback and the trim.  history1 and history2 are
\* what the two get_user_watch_history calls return (an unavailable store
\* yields the empty list).  `calls` names the collaborators reached.
ComputeRecommendations(cfm, cbfm, history1, history2, user_id, limit) ==
    LET calls1 == (IF CFIsReady(cfm) THEN {"cf.predict_for_user"} ELSE {})
        calls2 == (IF CBFIsReady(cbfm) THEN {"history"} ELSE {})
                    \cup (IF CBFIsReady(cbfm) /\ history1 # <<>>
                          THEN {"cbf.recommend_for_user"} ELSE {})
        \* lines 146-153, merged being what _merge_scores returned
        Merged(merged) ==
            [raised |-> "none",
             value |-> FormatResults(Truncate(
                          IF merged = <<>> THEN PopularityFallback(cbfm, history2, limit)
                          ELSE merged, limit)),
             calls |-> calls1 \cup calls2
                         \cup (IF merged = <<>> THEN {"cbf.item_metadata"} ELSE {})
                         \cup (IF merged = <<>> /\ cbfm.item_metadata # <<>>
                               THEN {"history"} ELSE {})]
        \* lines 132-143, cf_out being what the collaborative call gave
        Content(cf_out, cb_out) ==
            IF cb_out.raised # "none"
            THEN [raised |-> cb_out.raised, value |-> <<>>, calls |-> calls1 \cup calls2]
            ELSE Merged(MergeScores(cf_out.value, cb_out.value))
        \* lines 127-130
        Collaborative(cf_out) ==
            IF cf_out.raised # "none"
            THEN [raised |-> cf_out.raised, value |-> <<>>, calls |-> calls1]
            ELSE Content(cf_out,
                         IF CBFIsReady(cbfm) /\ history1 # <<>>
                         THEN RecommendForUser(cbfm, user_id, history1, limit * 3)
                         ELSE Ok(<<>>))
    IN Collaborative(IF CFIsReady(cfm) THEN PredictForUser(cfm, user_id, limit * 3)
                     ELSE Ok(<<>>))

\* The cached list never used.
NeverHit(cached) == FALSE

\* `if cached is not None`
IsHit(cached) == ~IsNone(cached)

\* HybridRecommender.get_recommendations as one call: what it returns or
\* raises, the cache store afterwards, and the collaborators it reached.
GetRecommendations(cfm, cbfm, store, get_ok, set_ok, history1, history2, user_id, limit) ==
    LET \* lines 156-161, put being what set_cached gave
        Written(out, put) ==
            [raised |-> put.raised,
             value |-> IF put.raised = "none" THEN out.value ELSE <<>>,
             store |-> put.store,
             calls |-> {"cache.get", "cache.set"} \cup out.calls]
        \* lines 127-161, out being what the cache miss path computed
        Missed(out) ==
            IF out.raised # "none"
            THEN [raised |-> out.raised, value |-> <<>>, store |-> store,
                  calls |-> {"cache.get"} \cup out.calls]
            ELSE IF out.value # <<>>
            THEN Written(out, SetCached(store, CacheKey(user_id), out.value, set_ok))
            ELSE [raised |-> "none", value |-> <<>>, store |-> store,
                  calls |-> {"cache.get"} \cup out.calls]
        \* lines 123-161, got being what get_cached gave
        Looked(got) ==
            IF got.raised # "none"
            THEN [raised |-> got.raised, value |-> <<>>, store |-> store,
                  calls |-> {"cache.get"}]
            ELSE IF IsHit(got.value)
            THEN [raised |-> "none", value |-> Truncate(got.value[1], limit),
                  store |-> store, calls |-> {"cache.get"}]
            ELSE Missed(ComputeRecommendations(cfm, cbfm, history1, history2, user_id, limit))
    IN Looked(GetCached(store, CacheKey(user_id), get_ok))

\* HybridRecommender.get_similar_items
HybridGetSimilarItems(cbfm, media_id, limit) ==
    IF ~CBFIsReady(cbfm) THEN Ok(<<>>)
    ELSE LET similar == GetSimilarItems(cbfm, media_id, limit)
         IN IF similar.raised # "none" THEN similar
            ELSE Ok([k \in DOMAIN similar.value |->
                       [media_id |-> similar.value[k][1], score |-> similar.value[k][2],
                        reason |-> "similar_content"]])

\* rebuild_models as one uninterrupted call on filters cfm, cbfm with the
\* fetched interactions and media_items: the filters it leaves and whether
\* it raised (build_feature_matrix is the only step that can raise then).
RebuildModels(cfm, cbfm, interactions, media_items) ==
    LET cf1 == BuildMatrix(cfm, interactions)
        cf2 == IF cf1.is_built THEN ComputeUserSimilarity(cf1) ELSE cf1
        built == BuildFeatureMatrix(cbfm, media_items)
        cbf2 == IF built.raised = "none" /\ built.state.is_built
                THEN ComputeItemSimilarity(built.state) ELSE built.state
    IN [raised |-> built.raised, cf |-> cf2, cbf |-> cbf2]

\* The summary dict rebuild_models returns.
Summary(cfm, cbfm, interactions, media_items) ==
    [collaborative |-> [users |-> CFUserCount(cfm), items |-> CFItemCount(cfm),
                        ready |-> CFIsReady(cfm)],
     content_based |-> [items |-> CBFItemCount(cbfm), features |-> CBFFeatureCount(cbfm),
                        ready |-> CBFIsReady(cbfm)],
     interactions_loaded |-> Len(interactions),
     media_items_loaded |-> Len(media_items)]

\* ------------------------------------------------------------------------
\* Stores (src/database.py) and the data they may hold
\* ------------------------------------------------------------------------

\* config.max_interactions
MAX_INTERACTIONS == 10000

Interaction(u, m, kind, rating) ==
    [user_id |-> u, media_id |-> m, interaction_type |-> kind, rating |-> rating]

MediaItem(id, genres, rating, type) ==
    [id |-> id, genres |-> genres, community_rating |-> rating, media_type |-> type]

\* get_user_interactions(limit): the newest `limit` rows, [] when the query
\* fails (the exception is caught and logged).
GetUserInteractions(rows, limit, db_ok) ==
    IF db_ok THEN SubSeq(rows, 1, Min2(limit, Len(rows))) ELSE <<>>

\* get_media_metadata(): every row, [] when the query fails.
GetMediaMetadata(rows, db_ok) == IF db_ok THEN rows ELSE <<>>

\* get_user_watch_history(user_id), read down to the media ids: [] when the
\* query fails.
GetUserWatchHistory(rows, db_ok) == IF db_ok THEN rows ELSE <<>>

\* Contents public.user_interactions may have when a rebuild reads it.  In
\* InteractionsA user u3 has a single interaction, fewer than
\* MIN_USER_INTERACTIONS.
InteractionsA ==
    <<Interaction("u1", "m1", "watch", None), Interaction("u1", "m2", "like", None),
      Interaction("u2", "m1", "watch", None), Interaction("u2", "m2", "like", None),
      Interaction("u2", "m3", "watch", None), Interaction("u3", "m2", "watch", None)>>

InteractionsB ==
    <<Interaction("u3", "m3", "like", None), Interaction("u3", "m1", "rate", Some(8)),
      Interaction("u2", "m3", "like", None), Interaction("u2", "m2", "completed", None),
      Interaction("u1", "m1", "watch", None), Interaction("u1", "m3", "watch", None),
      Interaction("u1", "m3", "skip", None)>>


\* Contents public.media_items may have.  In CatalogB every item has the same
\* metadata, so every term is in all three documents and max_df prunes it.
CatalogA ==
    <<MediaItem("m1", <<"action", "adventure">>, Some(85), "movie"),
      MediaItem("m2", <<"action">>, Some(70), "movie")>>

CatalogB ==
    <<MediaItem("m3", <<"drama">>, None, "movie"),
      MediaItem("m1", <<"drama">>, None, "movie"),
      MediaItem("m2", <<"drama">>, None, "movie")>>

\* What the two tables hold together, at one time or another.
StoreGenerations ==
    <<[interactions |-> InteractionsA, media_items |-> CatalogA],
      [interactions |-> InteractionsB, media_items |-> CatalogB]>>

\* public.watch_progress, per user
WatchProgress == [u1 |-> <<"m2">>, u2 |-> <<>>, u3 |-> <<"m3">>]

\* Who asks for recommendations, and for which items similar ones are asked.
RequestUsers == {"u1"}

RequestItems == {"m1", "m3"}

\* Largest `limit` a request carries.
MaxLimit == 2

\* ------------------------------------------------------------------------
\* The service process (main.py, src/api/routes.py)
\* ------------------------------------------------------------------------

VARIABLES
    cf,            \* recommender._cf
    cbf,           \* recommender._cbf
    last_rebuild,  \* recommender._last_rebuild
    cache_store,   \* the Redis keys "recs:<user>"
    rb,            \* per thread, the position and the locals of the rebuild_models call it runs
    task,          \* the position of _periodic_rebuild
    phase,         \* the position of lifespan
    response,      \* what the last call handed back to its caller
    store,         \* which of StoreGenerations the database holds
    hist,          \* per sub-model: the input of its last build call and whether a
                   \* similarity call followed it; the same for its last build call
                   \* that returned
    feed           \* a caller of one filter: the build inputs it is about to give
                   \* (todo) and those it has given (done), in order

vars == <<cf, cbf, last_rebuild, cache_store, rb, task, phase, response, store, hist, feed>>

\* The thread of the default executor that run_in_executor uses, and the
\* thread of the event loop, which runs every coroutine and request handler.
Threads == {"executor", "loop"}

Idle == [pc |-> "idle", interactions |-> <<>>, media_items |-> <<>>, low |-> {}, k |-> 0,
         summary |-> None]

NoResponse == [op |-> "none", raised |-> "none", value |-> <<>>]

NoHist == [called |-> "none", after_called |-> FALSE,
           returned |-> "none", after_returned |-> FALSE]

\* No caller feeding a filter directly.
NoFeed == [kind |-> "none", todo |-> <<>>, done |-> <<>>]

Init ==
    /\ cf = CFInit
    /\ cbf = CBFInit
    /\ last_rebuild = None
    /\ cache_store = [key \in {CacheKey(u) : u \in RequestUsers} |-> None]
    /\ rb = [t \in Threads |-> Idle]
    /\ task = "none"
    /\ phase = "init"
    /\ response = NoResponse
    /\ store = 1
    /\ hist = [m \in {"cf", "cbf"} |-> NoHist]
    /\ feed = NoFeed

\* --- rebuild_models, statement by statement, on thread t -----------------

\* thread t moves to position p
Goto(t, p) == rb' = [rb EXCEPT ![t].pc = p]

\* thread t's rebuild_models call ends by raising
RaiseIn(t) == rb' = [rb EXCEPT ![t] = [Idle EXCEPT !.pc = "raised"]]

LocalUsers(t) == AssignUsers(rb[t].interactions)

LocalItems(t) == AssignItems(rb[t].interactions)

FetchInteractions(t) ==
    /\ rb[t].pc = "fetch_interactions"
    /\ \E db_ok \in BOOLEAN :
          rb' = [rb EXCEPT ![t].pc = "fetch_media",
                           ![t].interactions = GetUserInteractions(StoreGenerations[store].interactions,
                                                                   MAX_INTERACTIONS, db_ok)]
    /\ UNCHANGED <<feed, cf, cbf, last_rebuild, cache_store, task, phase, response, store, hist>>

FetchMedia(t) ==
    /\ rb[t].pc = "fetch_media"
    /\ \E db_ok \in BOOLEAN :
          rb' = [rb EXCEPT ![t].pc = "cf_build",
                           ![t].media_items = GetMediaMetadata(StoreGenerations[store].media_items, db_ok)]
    /\ UNCHANGED <<feed, cf, cbf, last_rebuild, cache_store, task, phase, response, store, hist>>

\* build_matrix, lines 85-98: the empty-input return, or the index dicts
CFBuildStart(t) ==
    /\ rb[t].pc = "cf_build"
    /\ IF rb[t].interactions = <<>>
       THEN cf' = [cf EXCEPT !.is_built = FALSE] /\ Goto(t, "cf_check")
       ELSE cf' = cf /\ Goto(t, "cf_user_to_idx")
    /\ UNCHANGED <<feed, cbf, last_rebuild, cache_store, task, phase, response, store, hist>>

CFSetUserToIdx(t) ==
    /\ rb[t].pc = "cf_user_to_idx"
    /\ cf' = [cf EXCEPT !.user_to_idx = LocalUsers(t)]
    /\ Goto(t, "cf_idx_to_user")
    /\ UNCHANGED <<feed, cbf, last_rebuild, cache_store, task, phase, response, store, hist>>

CFSetIdxToUser(t) ==
    /\ rb[t].pc = "cf_idx_to_user"
    /\ cf' = [cf EXCEPT !.idx_to_user = InvertDict(LocalUsers(t))]
    /\ Goto(t, "cf_item_to_idx")
    /\ UNCHANGED <<feed, cbf, last_rebuild, cache_store, task, phase, response, store, hist>>

CFSetItemToIdx(t) ==
    /\ rb[t].pc = "cf_item_to_idx"
    /\ cf' = [cf EXCEPT !.item_to_idx = LocalItems(t)]
    /\ Goto(t, "cf_idx_to_item")
    /\ UNCHANGED <<feed, cbf, last_rebuild, cache_store, task, phase, response, store, hist>>

CFSetIdxToItem(t) ==
    /\ rb[t].pc = "cf_idx_to_item"
    /\ cf' = [cf EXCEPT !.idx_to_item = InvertDict(LocalItems(t))]
    /\ Goto(t, "cf_matrix")
    /\ UNCHANGED <<feed, cbf, last_rebuild, cache_store, task, phase, response, store, hist>>

CFSetMatrix(t) ==
    /\ rb[t].pc = "cf_matrix"
    /\ cf' = [cf EXCEPT !.matrix = Some(BuildCsr(rb[t].interactions, LocalUsers(t), LocalItems(t)))]
    /\ Goto(t, "cf_clear_similarity")
    /\ UNCHANGED <<feed, cbf, last_rebuild, cache_store, task, phase, response, store, hist>>

CFClearSimilarity(t) ==
    /\ rb[t].pc = "cf_clear_similarity"
    /\ cf' = [cf EXCEPT !.similarity = None]
    /\ Goto(t, "cf_is_built")
    /\ UNCHANGED <<feed, cbf, last_rebuild, cache_store, task, phase, response, store, hist>>

CFSetBuilt(t) ==
    /\ rb[t].pc = "cf_is_built"
    /\ cf' = [cf EXCEPT !.is_built = TRUE]
    /\ Goto(t, "cf_check")
    /\ UNCHANGED <<feed, cbf, last_rebuild, cache_store, task, phase, response, store, hist>>

\* rebuild_models line 67
CFCheckBuilt(t) ==
    /\ rb[t].pc = "cf_check"
    /\ Goto(t, IF cf.is_built THEN "cf_similarity" ELSE "cbf_build")
    /\ UNCHANGED <<feed, cf, cbf, last_rebuild, cache_store, task, phase, response, store, hist>>

\* compute_user_similarity, lines 159-182
CFSimCompute(t) ==
    /\ rb[t].pc = "cf_similarity"
    /\ IF ~CFCanComputeSimilarity(cf)
       THEN cf' = cf /\ Goto(t, "cbf_build")
       ELSE LET matrix == cf.matrix[1]
                low == LowIdxs(matrix)
            IN IF matrix.shape[1] = 0
               THEN cf' = [cf EXCEPT !.similarity = Some(<<>>)] /\ Goto(t, "cbf_build")
               ELSE IF Cardinality(low) = matrix.shape[1]
               THEN /\ cf' = [cf EXCEPT !.similarity = Some(Zeros(matrix.shape[1]))]
                    /\ Goto(t, "cbf_build")
               ELSE /\ cf' = [cf EXCEPT !.similarity = Some(CosineMatrix(matrix))]
                    /\ rb' = [rb EXCEPT ![t].pc = "cf_fill_diagonal", ![t].low = low]
    /\ UNCHANGED <<feed, cbf, last_rebuild, cache_store, task, phase, response, store, hist>>

\* line 186, in place on whatever self._similarity is by now
CFSimDiagonal(t) ==
    /\ rb[t].pc = "cf_fill_diagonal"
    /\ IF IsNone(cf.similarity)
       THEN cf' = cf /\ RaiseIn(t)
       ELSE /\ cf' = [cf EXCEPT !.similarity = Some(FillDiagonal(cf.similarity[1]))]
            /\ IF rb[t].low = {}
               THEN rb' = [rb EXCEPT ![t].pc = "cbf_build", ![t].low = {}]
               ELSE Goto(t, "cf_zero_rows")
    /\ UNCHANGED <<feed, cbf, last_rebuild, cache_store, task, phase, response, store, hist>>

\* line 191
CFSimRows(t) ==
    /\ rb[t].pc = "cf_zero_rows"
    /\ IF IsNone(cf.similarity) \/ ~(rb[t].low \subseteq DOMAIN cf.similarity[1])
       THEN cf' = cf /\ RaiseIn(t)
       ELSE /\ cf' = [cf EXCEPT !.similarity = Some(ZeroRows(cf.similarity[1], rb[t].low))]
            /\ Goto(t, "cf_zero_cols")
    /\ UNCHANGED <<feed, cbf, last_rebuild, cache_store, task, phase, response, store, hist>>

\* line 192
CFSimCols(t) ==
    /\ rb[t].pc = "cf_zero_cols"
    /\ IF IsNone(cf.similarity) \/ ~(rb[t].low \subseteq DOMAIN cf.similarity[1])
       THEN cf' = cf /\ RaiseIn(t)
       ELSE /\ cf' = [cf EXCEPT !.similarity = Some(ZeroCols(cf.similarity[1], rb[t].low))]
            /\ rb' = [rb EXCEPT ![t].pc = "cbf_build", ![t].low = {}]
    /\ UNCHANGED <<feed, cbf, last_rebuild, cache_store, task, phase, response, store, hist>>

\* build_feature_matrix, lines 97-100
CBFBuildStart(t) ==
    /\ rb[t].pc = "cbf_build"
    /\ IF rb[t].media_items = <<>>
       THEN cbf' = [cbf EXCEPT !.is_built = FALSE] /\ Goto(t, "cbf_check")
       ELSE cbf' = cbf /\ Goto(t, "cbf_clear_item_to_idx")
    /\ UNCHANGED <<feed, cf, last_rebuild, cache_store, task, phase, response, store, hist>>

CBFClearItemToIdx(t) ==
    /\ rb[t].pc = "cbf_clear_item_to_idx"
    /\ cbf' = [cbf EXCEPT !.item_to_idx = EmptyDict]
    /\ Goto(t, "cbf_clear_idx_to_item")
    /\ UNCHANGED <<feed, cf, last_rebuild, cache_store, task, phase, response, store, hist>>

CBFClearIdxToItem(t) ==
    /\ rb[t].pc = "cbf_clear_idx_to_item"
    /\ cbf' = [cbf EXCEPT !.idx_to_item = EmptyDict]
    /\ Goto(t, "cbf_clear_metadata")
    /\ UNCHANGED <<feed, cf, last_rebuild, cache_store, task, phase, response, store, hist>>

CBFClearMetadata(t) ==
    /\ rb[t].pc = "cbf_clear_metadata"
    /\ cbf' = [cbf EXCEPT !.item_metadata = <<>>]
    /\ rb' = [rb EXCEPT ![t].pc = "cbf_put_item_to_idx", ![t].k = 0]
    /\ UNCHANGED <<feed, cf, last_rebuild, cache_store, task, phase, response, store, hist>>

\* the loop body, lines 109-111, for item number rb[t].k
CBFPutItemToIdx(t) ==
    /\ rb[t].pc = "cbf_put_item_to_idx"
    /\ cbf' = [cbf EXCEPT !.item_to_idx = DictSet(@, rb[t].media_items[rb[t].k + 1].id, rb[t].k)]
    /\ Goto(t, "cbf_put_idx_to_item")
    /\ UNCHANGED <<feed, cf, last_rebuild, cache_store, task, phase, response, store, hist>>

CBFPutIdxToItem(t) ==
    /\ rb[t].pc = "cbf_put_idx_to_item"
    /\ cbf' = [cbf EXCEPT !.idx_to_item = DictSet(@, rb[t].k, rb[t].media_items[rb[t].k + 1].id)]
    /\ Goto(t, "cbf_put_metadata")
    /\ UNCHANGED <<feed, cf, last_rebuild, cache_store, task, phase, response, store, hist>>

CBFPutMetadata(t) ==
    /\ rb[t].pc = "cbf_put_metadata"
    /\ cbf' = [cbf EXCEPT !.item_metadata = MetadataSet(@, rb[t].media_items[rb[t].k + 1])]
    /\ IF rb[t].k + 1 >= Len(rb[t].media_items)
       THEN rb' = [rb EXCEPT ![t].pc = "cbf_vectorizer", ![t].k = 0]
       ELSE rb' = [rb EXCEPT ![t].pc = "cbf_put_item_to_idx", ![t].k = @ + 1]
    /\ UNCHANGED <<feed, cf, last_rebuild, cache_store, task, phase, response, store, hist>>

\* lines 118-128
CBFSetVectorizer(t) ==
    /\ rb[t].pc = "cbf_vectorizer"
    /\ cbf' = [cbf EXCEPT !.vectorizer = Some(NewVectorizer(Len(rb[t].media_items)))]
    /\ Goto(t, "cbf_fit")
    /\ UNCHANGED <<feed, cf, last_rebuild, cache_store, task, phase, response, store, hist>>

\* line 129: self._vectorizer.fit_transform(documents), which may raise
CBFFit(t) ==
    /\ rb[t].pc = "cbf_fit"
    /\ IF FitRaises(Documents(rb[t].media_items), cbf.vectorizer[1])
       THEN cbf' = cbf /\ RaiseIn(t)
       ELSE /\ cbf' = [cbf EXCEPT !.tfidf_matrix =
                          Some(FitTransform(Documents(rb[t].media_items), cbf.vectorizer[1]))]
            /\ Goto(t, "cbf_clear_similarity")
    /\ UNCHANGED <<feed, cf, last_rebuild, cache_store, task, phase, response, store, hist>>

CBFClearSimilarity(t) ==
    /\ rb[t].pc = "cbf_clear_similarity"
    /\ cbf' = [cbf EXCEPT !.similarity = None]
    /\ Goto(t, "cbf_is_built")
    /\ UNCHANGED <<feed, cf, last_rebuild, cache_store, task, phase, response, store, hist>>

CBFSetBuilt(t) ==
    /\ rb[t].pc = "cbf_is_built"
    /\ cbf' = [cbf EXCEPT !.is_built = TRUE]
    /\ Goto(t, "cbf_check")
    /\ UNCHANGED <<feed, cf, last_rebuild, cache_store, task, phase, response, store, hist>>

\* rebuild_models line 72
CBFCheckBuilt(t) ==
    /\ rb[t].pc = "cbf_check"
    /\ Goto(t, IF cbf.is_built THEN "cbf_similarity" ELSE "summary")
    /\ UNCHANGED <<feed, cf, cbf, last_rebuild, cache_store, task, phase, response, store, hist>>

\* compute_item_similarity, lines 146-160
CBFSimCompute(t) ==
    /\ rb[t].pc = "cbf_similarity"
    /\ IF ~CBFCanComputeSimilarity(cbf)
       THEN cbf' = cbf /\ Goto(t, "summary")
       ELSE IF cbf.tfidf_matrix[1].shape[1] = 0
       THEN cbf' = [cbf EXCEPT !.similarity = Some(<<>>)] /\ Goto(t, "summary")
       ELSE /\ cbf' = [cbf EXCEPT !.similarity = Some(ItemCosineMatrix(cbf.tfidf_matrix[1]))]
            /\ Goto(t, "cbf_fill_diagonal")
    /\ UNCHANGED <<feed, cf, last_rebuild, cache_store, task, phase, response, store, hist>>

\* line 163
CBFSimDiagonal(t) ==
    /\ rb[t].pc = "cbf_fill_diagonal"
    /\ IF IsNone(cbf.similarity)
       THEN cbf' = cbf /\ RaiseIn(t)
       ELSE /\ cbf' = [cbf EXCEPT !.similarity = Some(FillDiagonal(cbf.similarity[1]))]
            /\ Goto(t, "summary")
    /\ UNCHANGED <<feed, cf, last_rebuild, cache_store, task, phase, response, store, hist>>

\* rebuild_models lines 75-96
RebuildReturn(t) ==
    /\ rb[t].pc = "summary"
    /\ last_rebuild' = Some("time")
    /\ rb' = [rb EXCEPT ![t] = [Idle EXCEPT
                 !.pc = "returned",
                 !.summary = Some(Summary(cf, cbf, rb[t].interactions, rb[t].media_items))]]
    /\ UNCHANGED <<feed, cf, cbf, cache_store, task, phase, response, store, hist>>

RebuildStep(t) ==
    \/ FetchInteractions(t) \/ FetchMedia(t)
    \/ CFBuildStart(t) \/ CFSetUserToIdx(t) \/ CFSetIdxToUser(t) \/ CFSetItemToIdx(t)
    \/ CFSetIdxToItem(t) \/ CFSetMatrix(t) \/ CFClearSimilarity(t) \/ CFSetBuilt(t)
    \/ CFCheckBuilt(t) \/ CFSimCompute(t) \/ CFSimDiagonal(t) \/ CFSimRows(t) \/ CFSimCols(t)
    \/ CBFBuildStart(t) \/ CBFClearItemToIdx(t) \/ CBFClearIdxToItem(t) \/ CBFClearMetadata(t)
    \/ CBFPutItemToIdx(t) \/ CBFPutIdxToItem(t) \/ CBFPutMetadata(t) \/ CBFSetVectorizer(t)
    \/ CBFFit(t) \/ CBFClearSimilarity(t) \/ CBFSetBuilt(t) \/ CBFCheckBuilt(t)
    \/ CBFSimCompute(t) \/ CBFSimDiagonal(t) \/ RebuildReturn(t)

\* --- method calls, each run to its end ----------------------------------

\* rec.get_recommendations(user_id, limit).  get_ok and set_ok say whether
\* Redis answers the GET and the SETEX, db_ok1 and db_ok2 whether the history
\* store answers the two get_user_watch_history queries.
GetRecommendationsCall(user_id, limit, get_ok, set_ok, db_ok1, db_ok2) ==
    LET Returns(out) ==
            /\ response' = [op |-> "get_recommendations", raised |-> out.raised,
                            value |-> out.value, calls |-> out.calls,
                            get_ok |-> get_ok, set_ok |-> set_ok, limit |-> limit]
            /\ cache_store' = out.store
    IN /\ Returns(GetRecommendations(cf, cbf, cache_store, get_ok, set_ok,
                                     GetUserWatchHistory(WatchProgress[user_id], db_ok1),
                                     GetUserWatchHistory(WatchProgress[user_id], db_ok2),
                                     user_id, limit))
       /\ UNCHANGED <<feed, cf, cbf, last_rebuild, rb, task, phase, store, hist>>

\* rec.get_similar_items(media_id, limit)
GetSimilarItemsCall(media_id, limit) ==
    LET Returns(out) ==
            response' = [op |-> "get_similar_items", raised |-> out.raised, value |-> out.value]
    IN /\ Returns(HybridGetSimilarItems(cbf, media_id, limit))
       /\ UNCHANGED <<feed, cf, cbf, last_rebuild, cache_store, rb, task, phase, store, hist>>

\* A rebuild that also drops every "recs:" key.
RebuildInvalidates(db_ok1, db_ok2) ==
    LET Returns(out) ==
            /\ cf' = out.cf
            /\ cbf' = out.cbf
            /\ last_rebuild' = IF out.raised = "none" THEN Some("time") ELSE last_rebuild
            /\ response' = [op |-> "rebuild_models", raised |-> out.raised, value |-> None,
                            db_ok |-> <<db_ok1, db_ok2>>]
    IN /\ Returns(RebuildModels(cf, cbf,
                                GetUserInteractions(StoreGenerations[store].interactions,
                                                    MAX_INTERACTIONS, db_ok1),
                                GetMediaMetadata(StoreGenerations[store].media_items, db_ok2)))
       /\ cache_store' = [key \in DOMAIN cache_store |-> None]
       /\ UNCHANGED <<feed, rb, task, phase, store, hist>>

\* rec.rebuild_models() with no other thread running.  db_ok1 and db_ok2 say
\* whether the store answers the two fetches.
RebuildModelsCall(db_ok1, db_ok2) ==
    LET Returns(interactions, media_items, out) ==
            /\ cf' = out.cf
            /\ cbf' = out.cbf
            /\ last_rebuild' = IF out.raised = "none" THEN Some("time") ELSE last_rebuild
            /\ response' = [op |-> "rebuild_models", raised |-> out.raised,
                            value |-> IF out.raised = "none"
                                      THEN Some(Summary(out.cf, out.cbf,
                                                        interactions, media_items))
                                      ELSE None,
                            db_ok |-> <<db_ok1, db_ok2>>]
        Fetched(interactions, media_items) ==
            Returns(interactions, media_items,
                    RebuildModels(cf, cbf, interactions, media_items))
    IN /\ Fetched(GetUserInteractions(StoreGenerations[store].interactions,
                                      MAX_INTERACTIONS, db_ok1),
                  GetMediaMetadata(StoreGenerations[store].media_items, db_ok2))
       /\ UNCHANGED <<feed, cache_store, rb, task, phase, store, hist>>

\* The tables get other contents.  No rebuild is reading them at that time.
StoreChanges ==
    /\ \A t \in Threads : rb[t].pc \in {"idle", "returned", "raised"}
    /\ \E g \in DOMAIN StoreGenerations \ {store} : store' = g
    /\ UNCHANGED <<feed, cf, cbf, last_rebuild, cache_store, rb, task, phase, response, hist>>

\* A "recs:" key reaches its TTL.
CacheExpire(key) ==
    /\ ~IsNone(cache_store[key])
    /\ cache_store' = [cache_store EXCEPT ![key] = None]
    /\ UNCHANGED <<feed, cf, cbf, last_rebuild, rb, task, phase, response, store, hist>>

\* --- the event loop -----------------------------------------------------

\* The event loop runs one coroutine step or request handler at a time; while
\* its thread is inside a rebuild_models call nothing else of it runs.
LoopFree == rb["loop"].pc = "idle"

Serving == phase = "serving" /\ LoopFree

\* lifespan, lines 84-86: the initial build is handed to the executor
LifespanStartup ==
    /\ phase = "init"
    /\ phase' = "initial_build"
    /\ rb' = [rb EXCEPT !["executor"].pc = "fetch_interactions"]
    /\ UNCHANGED <<feed, cf, cbf, last_rebuild, cache_store, task, response, store, hist>>

\* lifespan, lines 87-97: the initial build ended (returned, or raised and was
\* logged); the periodic task is created and requests are served
LifespanStarted ==
    /\ phase = "initial_build"
    /\ rb["executor"].pc \in {"returned", "raised"}
    /\ phase' = "serving"
    /\ task' = "start"
    /\ rb' = [rb EXCEPT !["executor"] = Idle]
    /\ UNCHANGED <<feed, cf, cbf, last_rebuild, cache_store, response, store, hist>>

\* _periodic_rebuild, lines 56-61
PeriodicSubmit ==
    /\ LoopFree
    /\ task = "start"
    /\ task' = "awaiting"
    /\ rb' = [rb EXCEPT !["executor"].pc = "fetch_interactions"]
    /\ UNCHANGED <<feed, cf, cbf, last_rebuild, cache_store, phase, response, store, hist>>

\* line 62, then line 65
PeriodicComplete ==
    /\ LoopFree
    /\ task = "awaiting"
    /\ rb["executor"].pc = "returned"
    /\ task' = "sleeping"
    /\ rb' = [rb EXCEPT !["executor"] = Idle]
    /\ UNCHANGED <<feed, cf, cbf, last_rebuild, cache_store, phase, response, store, hist>>

\* The periodic task, had the failure ended it.
LoopEnded == "done"

\* The position of the periodic task after `except Exception` caught a
\* failed rebuild: the sleep of line 65.
AfterFailedRebuild == "sleeping"

\* lines 63-64, then line 65
PeriodicFailed ==
    /\ LoopFree
    /\ task = "awaiting"
    /\ rb["executor"].pc = "raised"
    /\ task' = AfterFailedRebuild
    /\ rb' = [rb EXCEPT !["executor"] = Idle]
    /\ UNCHANGED <<feed, cf, cbf, last_rebuild, cache_store, phase, response, store, hist>>

\* asyncio.sleep(interval) is over
PeriodicWake ==
    /\ LoopFree
    /\ task = "sleeping"
    /\ task' = "start"
    /\ UNCHANGED <<feed, cf, cbf, last_rebuild, cache_store, rb, phase, response, store, hist>>

\* lifespan, lines 100-110: the task is cancelled where it waits.  A thread
\* of the executor cannot be cancelled: a rebuild it runs goes on.
Shutdown ==
    /\ Serving
    /\ phase' = "shutdown"
    /\ task' = "cancelled"
    /\ UNCHANGED <<feed, cf, cbf, last_rebuild, cache_store, rb, response, store, hist>>

\* What a route hands back: 200, or the 500 its `except Exception` makes of
\* anything the recommender raised.
HttpStatus(raised) == IF raised = "none" THEN <<200>> ELSE <<500>>

\* GET /api/v1/recommendations/{user_id}, with Redis unreachable (every read
\* reaches the models, nothing is written) and the history store answering
RecommendationsRequest ==
    /\ Serving
    /\ \E user_id \in RequestUsers, limit \in 1 .. MaxLimit :
          LET Responds(out) ==
                  /\ response' = [op |-> "GET recommendations", raised |-> out.raised,
                                  value |-> HttpStatus(out.raised)]
                  /\ cache_store' = out.store
          IN Responds(GetRecommendations(cf, cbf, cache_store, FALSE, FALSE,
                                         GetUserWatchHistory(WatchProgress[user_id], TRUE),
                                         GetUserWatchHistory(WatchProgress[user_id], TRUE),
                                         user_id, limit))
    /\ UNCHANGED <<feed, cf, cbf, last_rebuild, rb, task, phase, store, hist>>

\* GET /api/v1/similar/{media_id}
SimilarItemsRequest ==
    /\ Serving
    /\ \E media_id \in RequestItems, limit \in 1 .. MaxLimit :
          LET Responds(out) ==
                  response' = [op |-> "GET similar", raised |-> out.raised,
                               value |-> HttpStatus(out.raised)]
          IN Responds(HybridGetSimilarItems(cbf, media_id, limit))
    /\ UNCHANGED <<feed, cf, cbf, last_rebuild, cache_store, rb, task, phase, store, hist>>

\* Where the executor's rebuild may be when a POST /api/v1/rebuild arrives:
\* not running, or at the head of compute_item_similarity.
RebuildArrival == {"idle", "returned", "raised", "cbf_similarity"}

\* POST /api/v1/rebuild: the handler calls rec.rebuild_models() itself, on
\* the event loop's thread
RebuildRequest ==
    /\ Serving
    /\ rb["executor"].pc \in RebuildArrival
    /\ rb' = [rb EXCEPT !["loop"].pc = "fetch_interactions"]
    /\ UNCHANGED <<feed, cf, cbf, last_rebuild, cache_store, task, phase, response, store, hist>>

\* routes.py lines 161-168: 200 with the summary, or 500
RebuildResponse ==
    /\ rb["loop"].pc \in {"returned", "raised"}
    /\ response' = [op |-> "POST rebuild",
                    raised |-> IF rb["loop"].pc = "raised" THEN "Exception" ELSE "none",
                    value |-> HttpStatus(IF rb["loop"].pc = "raised" THEN "Exception" ELSE "none")]
    /\ rb' = [rb EXCEPT !["loop"] = Idle]
    /\ UNCHANGED <<feed, cf, cbf, last_rebuild, cache_store, task, phase, store, hist>>

TtlExpires == \E key \in DOMAIN cache_store : CacheExpire(key)

\* --- the recommender used by one caller, one call at a time -------------

\* the history store answers both queries of a call, or neither
CallGetRecommendations ==
    \E user_id \in RequestUsers, limit \in 1 .. MaxLimit,
       get_ok \in BOOLEAN, set_ok \in BOOLEAN, db_ok \in BOOLEAN :
       GetRecommendationsCall(user_id, limit, get_ok, set_ok, db_ok, db_ok)

CallGetSimilarItems ==
    \E media_id \in RequestItems, limit \in 1 .. MaxLimit : GetSimilarItemsCall(media_id, limit)

CallRebuildModels ==
    \E db_ok1 \in BOOLEAN, db_ok2 \in BOOLEAN : RebuildModelsCall(db_ok1, db_ok2)

NextHybrid ==
    \/ CallRebuildModels
    \/ CallGetRecommendations
    \/ CallGetSimilarItems
    \/ TtlExpires
    \/ StoreChanges

SpecHybrid == Init /\ [][NextHybrid]_vars

\* --- the two filters used directly, one call at a time ------------------

\* What build_matrix and build_feature_matrix are given.
ModelInteractions ==
    {<<>>} \cup {StoreGenerations[g].interactions : g \in DOMAIN StoreGenerations}

ModelCatalogs ==
    {<<>>} \cup {StoreGenerations[g].media_items : g \in DOMAIN StoreGenerations}

\* Whom and what the prediction methods are asked about: ids the data holds
\* and ids it never holds ("u9", "m9").
ModelUsers == {"u1", "u3", "u9"}

ModelItems == {"m1", "m3", "m9"}

WatchLists == {<<>>, <<"m2">>, <<"m3">>, <<"m9">>, <<"m9", "m2">>}

BuildKind(input) == IF input = <<>> THEN "empty" ELSE "nonempty"

\* the record of calls h after a build call on an input of that kind
AfterBuild(h, kind, raised) ==
    [called |-> kind, after_called |-> FALSE,
     returned |-> IF raised THEN h.returned ELSE kind,
     after_returned |-> IF raised THEN h.after_returned ELSE FALSE]

\* the record of calls h after a similarity call
AfterSimilarity(h) == [h EXCEPT !.after_called = TRUE, !.after_returned = TRUE]

CallBuildMatrix ==
    \E interactions \in ModelInteractions :
       /\ cf' = BuildMatrix(cf, interactions)
       /\ hist' = [hist EXCEPT !["cf"] = AfterBuild(@, BuildKind(interactions), FALSE)]
       /\ response' = [op |-> "build_matrix", raised |-> "none", value |-> <<>>,
                       args |-> <<Len(interactions)>>]
       /\ UNCHANGED <<feed, cbf, last_rebuild, cache_store, rb, task, phase, store>>

CallComputeUserSimilarity ==
    /\ cf' = ComputeUserSimilarity(cf)
    /\ hist' = [hist EXCEPT !["cf"] = AfterSimilarity(@)]
    /\ response' = [op |-> "compute_user_similarity", raised |-> "none", value |-> <<>>,
                    args |-> <<cf.is_built>>]
    /\ UNCHANGED <<feed, cbf, last_rebuild, cache_store, rb, task, phase, store>>

CallPredictForUser ==
    \E user_id \in ModelUsers, n \in 0 .. MaxLimit :
       LET out == PredictForUser(cf, user_id, n)
       IN /\ response' = [op |-> "predict_for_user", raised |-> out.raised, value |-> out.value,
                          args |-> <<user_id, n>>]
          /\ UNCHANGED <<feed, cf, cbf, last_rebuild, cache_store, rb, task, phase, store, hist>>

CallBuildFeatureMatrix ==
    \E media_items \in ModelCatalogs :
       LET out == BuildFeatureMatrix(cbf, media_items)
       IN /\ cbf' = out.state
          /\ hist' = [hist EXCEPT !["cbf"] =
                                  AfterBuild(@, BuildKind(media_items), out.raised # "none")]
          /\ response' = [op |-> "build_feature_matrix", raised |-> out.raised, value |-> <<>>,
                          args |-> <<Len(media_items)>>]
          /\ UNCHANGED <<feed, cf, last_rebuild, cache_store, rb, task, phase, store>>

CallComputeItemSimilarity ==
    /\ cbf' = ComputeItemSimilarity(cbf)
    /\ hist' = [hist EXCEPT !["cbf"] = AfterSimilarity(@)]
    /\ response' = [op |-> "compute_item_similarity", raised |-> "none", value |-> <<>>,
                    args |-> <<cbf.is_built>>]
    /\ UNCHANGED <<feed, cf, last_rebuild, cache_store, rb, task, phase, store>>

\* user_id is only logged by recommend_for_user: one user stands for all
CallRecommendForUser ==
    \E user_id \in RequestUsers, watched \in WatchLists, n \in 0 .. MaxLimit :
       LET out == RecommendForUser(cbf, user_id, watched, n)
       IN /\ response' = [op |-> "recommend_for_user", raised |-> out.raised,
                          value |-> out.value, args |-> <<watched, n>>]
          /\ UNCHANGED <<feed, cf, cbf, last_rebuild, cache_store, rb, task, phase, store, hist>>

CallSimilarItems ==
    \E media_id \in ModelItems, n \in 0 .. MaxLimit :
       LET out == GetSimilarItems(cbf, media_id, n)
       IN /\ response' = [op |-> "get_similar_items", raised |-> out.raised,
                          value |-> out.value, args |-> <<media_id, n>>]
          /\ UNCHANGED <<feed, cf, cbf, last_rebuild, cache_store, rb, task, phase, store, hist>>

NextModels ==
    \/ CallBuildMatrix \/ CallComputeUserSimilarity \/ CallPredictForUser
    \/ CallBuildFeatureMatrix \/ CallComputeItemSimilarity
    \/ CallRecommendForUser \/ CallSimilarItems

SpecModels == Init /\ [][NextModels]_vars

Next ==
    \/ \E t \in Threads : RebuildStep(t)
    \/ LifespanStartup \/ LifespanStarted
    \/ PeriodicSubmit \/ PeriodicComplete \/ PeriodicFailed \/ PeriodicWake
    \/ Shutdown
    \/ RecommendationsRequest \/ SimilarItemsRequest \/ RebuildRequest \/ RebuildResponse
    \/ StoreChanges

Spec == Init /\ [][Next]_vars

\* The service with its rebuilds and no reader, under the scheduling asyncio
\* gives the periodic task: a step of the task that is ready again and again
\* is run, however often a request handler takes the event loop in between.
NextUnread ==
    \/ \E t \in Threads : RebuildStep(t)
    \/ LifespanStartup \/ LifespanStarted
    \/ PeriodicSubmit \/ PeriodicComplete \/ PeriodicFailed \/ PeriodicWake
    \/ Shutdown
    \/ RebuildRequest \/ RebuildResponse
    \/ StoreChanges

FairSpec ==
    /\ Init /\ [][NextUnread]_vars
    /\ SF_vars(PeriodicSubmit) /\ SF_vars(PeriodicComplete)
    /\ SF_vars(PeriodicFailed) /\ SF_vars(PeriodicWake)

\* --- one filter fed by a caller with inputs of every shape ---------------

\* What other users did: u2 and u3 have two interactions or more each.
Neighbours ==
    <<Interaction("u2", "m1", "watch", None), Interaction("u2", "m2", "like", None),
      Interaction("u2", "m3", "completed", None),
      Interaction("u2", "m4", "add_to_watchlist", None),
      Interaction("u3", "m1", "like", None), Interaction("u3", "m3", "watch", None)>>

\* What user u1 may have done to one item: implicit signals of positive and
\* negative weight, an explicit rating, and a "rate" row without a rating.
OwnInteractions ==
    {Interaction("u1", m, e[1], e[2]) :
        m \in {"m1", "m2"},
        e \in {<<"watch", None>>, <<"dislike", None>>, <<"rate", None>>,
               <<"rate", Some(3)>>, <<"rate", Some(8)>>}}

\* Inputs of build_matrix: two interactions of u1, on one item or on two, in
\* either order, around those of the other users.
FedInteractions == {<<a>> \o Neighbours \o <<b>> : a \in OwnInteractions, b \in OwnInteractions}

\* More users than MAX_SIMILAR_USERS.
CrowdIds ==
    <<"c01", "c02", "c03", "c04", "c05", "c06", "c07", "c08", "c09", "c10", "c11",
      "c12", "c13", "c14", "c15", "c16", "c17", "c18", "c19", "c20", "c21", "c22",
      "c23", "c24", "c25", "c26", "c27", "c28", "c29", "c30", "c31", "c32", "c33",
      "c34", "c35", "c36", "c37", "c38", "c39", "c40", "c41", "c42", "c43", "c44",
      "c45", "c46", "c47", "c48", "c49", "c50", "c51", "c52", "c53">>

\* What user number j of the crowd did: the first 51 rated m1 from 1 to 10
\* in turn, the others disliked m1; all liked m3.
CrowdInteraction(j, slot) ==
    IF slot = 1 THEN Interaction(CrowdIds[j], "m3", "like", None)
    ELSE IF j > MAX_SIMILAR_USERS + 1 THEN Interaction(CrowdIds[j], "m1", "dislike", None)
    ELSE Interaction(CrowdIds[j], "m1", "rate", Some(((j - 1) % 10) + 1))

\* An input of build_matrix in which u1, who watched m1 and m2, has 51 users
\* of positive similarity and two of negative similarity.
CrowdInteractions ==
    <<Interaction("u1", "m1", "watch", None), Interaction("u1", "m2", "watch", None)>>
       \o [k \in 1 .. (2 * Len(CrowdIds)) |-> CrowdInteraction(((k - 1) \div 2) + 1, (k - 1) % 2)]

\* An input build_matrix was given before, about another user and item.
EarlierInteractions ==
    <<Interaction("u9", "m9", "watch", None), Interaction("u9", "m9", "like", None)>>

\* Catalog rows; two of them carry the id "m3".
CatalogRows ==
    {MediaItem("m1", <<"drama">>, Some(80), "movie"),
     MediaItem("m2", <<"drama", "crime">>, Some(50), "movie"),
     MediaItem("m3", <<"drama">>, None, "series"),
     MediaItem("m3", <<"crime">>, Some(80), "movie")}

\* Inputs of build_feature_matrix: every list of two or three catalog rows.
FedCatalogs ==
    {<<a, b>> : a \in CatalogRows, b \in CatalogRows}
        \cup {<<a, b, c>> : a \in CatalogRows, b \in CatalogRows, c \in CatalogRows}

\* An input build_feature_matrix was given before.
EarlierCatalog ==
    <<MediaItem("m9", <<"horror">>, Some(30), "movie"),
      MediaItem("m1", <<"horror">>, None, "movie")>>

\* What a caller is about to give one filter: one input, or an earlier input
\* and then that one.
Feeds ==
    {[kind |-> "cf", todo |-> t, done |-> <<>>] :
        t \in {<<i>> : i \in FedInteractions \cup {CrowdInteractions}}
                 \cup {<<EarlierInteractions, i>> : i \in FedInteractions}}
      \cup {[kind |-> "cbf", todo |-> t, done |-> <<>>] :
              t \in {<<c>> : c \in FedCatalogs}
                       \cup {<<EarlierCatalog, c>> : c \in FedCatalogs}}

\* Two fresh filters and a caller with its inputs.
InitFed ==
    /\ cf = CFInit
    /\ cbf = CBFInit
    /\ last_rebuild = None
    /\ cache_store = [key \in {CacheKey(u) : u \in RequestUsers} |-> None]
    /\ rb = [t \in Threads |-> Idle]
    /\ task = "none"
    /\ phase = "init"
    /\ response = NoResponse
    /\ store = 1
    /\ hist = [m \in {"cf", "cbf"} |-> NoHist]
    /\ feed \in Feeds

\* the feed after its next input was given
Fed(f) == [f EXCEPT !.todo = Tail(@), !.done = Append(@, Head(f.todo))]

\* cf.build_matrix(interactions) on the caller's next input
FeedBuildMatrix ==
    /\ feed.kind = "cf" /\ feed.todo # <<>>
    /\ cf' = BuildMatrix(cf, Head(feed.todo))
    /\ feed' = Fed(feed)
    /\ hist' = [hist EXCEPT !["cf"] = AfterBuild(@, BuildKind(Head(feed.todo)), FALSE)]
    /\ response' = [op |-> "build_matrix", raised |-> "none", value |-> <<>>,
                    args |-> <<Len(Head(feed.todo))>>]
    /\ UNCHANGED <<cbf, last_rebuild, cache_store, rb, task, phase, store>>

\* cbf.build_feature_matrix(media_items) on the caller's next input
FeedBuildFeatureMatrix ==
    /\ feed.kind = "cbf" /\ feed.todo # <<>>
    /\ LET Returns(out) ==
               /\ cbf' = out.state
               /\ hist' = [hist EXCEPT !["cbf"] =
                              AfterBuild(@, BuildKind(Head(feed.todo)), out.raised # "none")]
               /\ response' = [op |-> "build_feature_matrix", raised |-> out.raised,
                               value |-> <<>>, args |-> <<Len(Head(feed.todo))>>]
       IN Returns(BuildFeatureMatrix(cbf, Head(feed.todo)))
    /\ feed' = Fed(feed)
    /\ UNCHANGED <<cf, last_rebuild, cache_store, rb, task, phase, store>>

\* the calls the caller makes on the filter it has fed
FedComputeUserSimilarity == feed.kind = "cf" /\ feed.done # <<>> /\ CallComputeUserSimilarity

FedPredictForUser == feed.kind = "cf" /\ feed.done # <<>> /\ CallPredictForUser

FedComputeItemSimilarity == feed.kind = "cbf" /\ feed.done # <<>> /\ CallComputeItemSimilarity

FedRecommendForUser == feed.kind = "cbf" /\ feed.done # <<>> /\ CallRecommendForUser

FedSimilarItems == feed.kind = "cbf" /\ feed.done # <<>> /\ CallSimilarItems

NextFed ==
    \/ FeedBuildMatrix \/ FedComputeUserSimilarity \/ FedPredictForUser
    \/ FeedBuildFeatureMatrix \/ FedComputeItemSimilarity
    \/ FedRecommendForUser \/ FedSimilarItems

SpecFed == InitFed /\ [][NextFed]_vars

\* --- two rebuilds at once -------------------------------------------------

\* The service after a start with the database down (the initial build left
\* both filters as constructed): the periodic task has handed its rebuild to
\* the executor, and no request has been answered yet.
InitOverlap ==
    /\ cf = CFInit
    /\ cbf = CBFInit
    /\ last_rebuild = Some("time")
    /\ cache_store = [key \in {CacheKey(u) : u \in RequestUsers} |-> None]
    /\ rb = [t \in Threads |-> Idle]
    /\ task = "awaiting"
    /\ phase = "serving"
    /\ response = NoResponse
    /\ store \in DOMAIN StoreGenerations
    /\ hist = [m \in {"cf", "cbf"} |-> NoHist]
    /\ feed = NoFeed

\* main.py line 61: the worker thread starts the rebuild handed to it.
WorkerStarts ==
    /\ \A t \in Threads : rb[t].pc = "idle"
    /\ rb' = [rb EXCEPT !["executor"].pc = "fetch_interactions"]
    /\ UNCHANGED <<feed, cf, cbf, last_rebuild, cache_store, task, phase, response, store, hist>>

\* POST /api/v1/rebuild while the worker thread is inside its rebuild: the
\* handler's rebuild_models call, run from its first statement to its last
\* between two statements of the worker's call.
HandlerRebuilds ==
    /\ response = NoResponse
    /\ rb["executor"].pc \notin {"idle", "returned", "raised"}
    /\ CallRebuildModels

\* The tables get other contents while the worker's rebuild runs and the
\* handler's has not read them.
StoreChangesBetween ==
    /\ response = NoResponse
    /\ rb["executor"].pc \notin {"idle", "returned", "raised"}
    /\ \E g \in DOMAIN StoreGenerations \ {store} : store' = g
    /\ UNCHANGED <<feed, cf, cbf, last_rebuild, cache_store, rb, task, phase, response, hist>>

NextOverlap ==
    \/ WorkerStarts
    \/ RebuildStep("executor")
    \/ HandlerRebuilds
    \/ StoreChangesBetween

SpecOverlap == InitOverlap /\ [][NextOverlap]_vars

\* --- the merge of two result lists, on lists of every shape ---------------

\* Every list of at most `len` (id, score) pairs with distinct ids.
ScoreLists(ids, scores, len) ==
    {<<>>}
      \cup {<<<<a, x>>>> : a \in ids, x \in scores}
      \cup (IF len < 2 THEN {}
            ELSE {<<<<a, x>>, <<b, y>>>> :
                     a \in ids, b \in ids, x \in scores, y \in scores} \ {<<>>})
      \cup (IF len < 3 THEN {}
            ELSE {<<<<pair[1][1], pair[1][2]>>, <<pair[2][1], pair[2][2]>>, <<c, z>>>> :
                     pair \in {<<<<a, x>>, <<b, y>>>> :
                                  a \in ids, b \in ids, x \in scores, y \in scores},
                     c \in ids, z \in scores})

DistinctIds(list) == \A j \in DOMAIN list, k \in DOMAIN list : j # k => list[j][1] # list[k][1]

\* What predict_for_user may hand to the merge: up to three items.
MergeCfLists ==
    {l \in ScoreLists({"m1", "m2", "m3"}, {200, 500, 1000}, 3) : DistinctIds(l)}

\* What recommend_for_user may hand to the merge: up to two items.
MergeCbLists ==
    {l \in ScoreLists({"m2", "m3", "m4"}, {400, 1000}, 2) : DistinctIds(l)}

\* A caller of the merge with the two lists it is about to give.
InitMerge ==
    /\ cf = CFInit
    /\ cbf = CBFInit
    /\ last_rebuild = None
    /\ cache_store = [key \in {CacheKey(u) : u \in RequestUsers} |-> None]
    /\ rb = [t \in Threads |-> Idle]
    /\ task = "none"
    /\ phase = "init"
    /\ response = NoResponse
    /\ store = 1
    /\ hist = [m \in {"cf", "cbf"} |-> NoHist]
    /\ feed \in {[kind |-> "merge", todo |-> <<a, b>>, done |-> <<>>] :
                    a \in MergeCfLists, b \in MergeCbLists}

\* HybridRecommender._normalize(scores) on one of the two lists
CallNormalize ==
    /\ feed.kind = "merge"
    /\ \E which \in 1 .. 2 :
          response' = [op |-> "_normalize", raised |-> "none",
                       value |-> Normalize(feed.todo[which]), args |-> <<feed.todo[which]>>]
    /\ UNCHANGED <<feed, cf, cbf, last_rebuild, cache_store, rb, task, phase, store, hist>>

\* self._merge_scores(cf_results, cb_results)
CallMergeScores ==
    /\ feed.kind = "merge"
    /\ response' = [op |-> "_merge_scores", raised |-> "none",
                    value |-> MergeScores(feed.todo[1], feed.todo[2]), args |-> feed.todo]
    /\ UNCHANGED <<feed, cf, cbf, last_rebuild, cache_store, rb, task, phase, store, hist>>

NextMerge == CallNormalize \/ CallMergeScores

SpecMerge == InitMerge /\ [][NextMerge]_vars

\* ------------------------------------------------------------------------
\* Properties
\* ------------------------------------------------------------------------

\* The complete models: the one __init__ leaves, and for each content of the
\* store the one a whole rebuild from it leaves.
CFGenerations ==
    {CFInit} \cup {ComputeUserSimilarity(BuildMatrix(CFInit, StoreGenerations[g].interactions)) :
                     g \in DOMAIN StoreGenerations}

CBFGenerations ==
    {CBFInit} \cup {ComputeItemSimilarity(BuildFeatureMatrix(CBFInit, StoreGenerations[g].media_items).state) :
                      g \in {h \in DOMAIN StoreGenerations :
                               BuildFeatureMatrix(CBFInit, StoreGenerations[h].media_items).raised = "none"}}

\* Every field of the filter is the field of one and the same complete model
\* (the built flag apart, which an empty fetch lowers on its own).
CFOneGeneration(c) == \E g \in CFGenerations : [c EXCEPT !.is_built = g.is_built] = g

CBFOneGeneration(c) == \E g \in CBFGenerations : [c EXCEPT !.is_built = g.is_built] = g

\* C1: whenever the event loop can serve a read, each filter holds the fields
\* of one generation only (a rebuild builds aside and swaps).
C1_ReaderSeesOneGeneration ==
    Serving => (CFOneGeneration(cf) /\ CBFOneGeneration(cbf))

\* C2: a rebuild_models call that raises leaves every field of both filters
\* as it was before the call.
C2_FailedRebuildChangesNothing ==
    [][(response'.op = "rebuild_models" /\ response'.raised # "none")
          => (cf' = cf /\ cbf' = cbf)]_vars

\* The filters answer every question of the model's callers alike.
CFAnswersAlike(a, b) ==
    \A user_id \in ModelUsers, n \in 1 .. MaxLimit :
       PredictForUser(a, user_id, n) = PredictForUser(b, user_id, n)

CBFAnswersAlike(a, b) ==
    \A media_id \in ModelItems, n \in 1 .. MaxLimit :
       GetSimilarItems(a, media_id, n) = GetSimilarItems(b, media_id, n)

\* C3: a rebuild whose fetch got nothing from an unavailable store leaves a
\* READY filter READY and answering as before.
C3_UnavailableStoreKeepsReady ==
    [][response'.op = "rebuild_models"
          => /\ (~response'.db_ok[1] /\ CFIsReady(cf))
                   => (CFIsReady(cf') /\ CFAnswersAlike(cf, cf'))
             /\ (~response'.db_ok[2] /\ CBFIsReady(cbf))
                   => (CBFIsReady(cbf') /\ CBFAnswersAlike(cbf, cbf'))]_vars

\* A rebuild is under way on the executor's thread.
ExecutorRebuilding == rb["executor"].pc \notin {"idle", "returned", "raised"}

\* C4: cancelling the periodic task while its rebuild runs installs no
\* partial model: the filters are whole at the cancellation, and whatever
\* changes them afterwards leaves them whole.
C4_CancelInstallsNoPartialModel ==
    /\ [][(task # "cancelled" /\ task' = "cancelled" /\ ExecutorRebuilding)
             => (CFOneGeneration(cf') /\ CBFOneGeneration(cbf'))]_vars
    /\ [][task = "cancelled"
             => /\ cf' # cf => CFOneGeneration(cf')
                /\ cbf' # cbf => CBFOneGeneration(cbf')]_vars

\* C5: no rebuild runs on the thread that serves the reads: the event loop's
\* thread is never inside rebuild_models.
C5_RebuildsOffTheLoop == rb["loop"].pc = "idle"

\* The rebuild the periodic task awaits has raised.
PeriodicRebuildFailed == task = "awaiting" /\ rb["executor"].pc = "raised"

\* The periodic task has handed a fresh rebuild to the executor.
PeriodicAttemptStarted == task = "awaiting" /\ rb["executor"].pc = "fetch_interactions"

\* C6: a rebuild that fails does not end the periodic loop: the step the task
\* takes on the failure leaves it sleeping (or cancelled by shutdown), and
\* from the failure on, unless the task is cancelled, it comes to hand the
\* next rebuild attempt to the executor, provided the event loop is not held
\* for ever by a request handler.
C6_FailureKeepsLoopRunning ==
    /\ [][PeriodicRebuildFailed => task' \in {"awaiting", "sleeping", "cancelled"}]_vars
    /\ [][task = "sleeping" => task' \in {"sleeping", "start", "cancelled"}]_vars
    /\ ([]<>LoopFree => (PeriodicRebuildFailed ~> (task = "cancelled" \/ PeriodicAttemptStarted)))

\* C6 witness: the task sleeps after a rebuild that raised (the executor's
\* slot is free again and no rebuild has completed since the failure).
C6_Witness_SleepingAfterFailure ==
    /\ task = "sleeping"
    /\ phase = "serving"
    /\ IsNone(last_rebuild)

\* A similarity call on a filter that is not BUILT changes nothing.
SimilarityOnUnbuiltIsNoop ==
    /\ (response'.op = "compute_user_similarity" /\ ~cf.is_built) => cf' = cf
    /\ (response'.op = "compute_item_similarity" /\ ~cbf.is_built) => cbf' = cbf

C8_EmptyWhenNotReadyOrUnknown ==
    /\ (/\ response.op = "predict_for_user"
        /\ ~CFIsReady(cf) \/ response.args[1] \notin DOMAIN cf.user_to_idx)
          => (response.raised = "none" /\ response.value = <<>>)
    /\ (/\ response.op = "recommend_for_user"
        /\ ~CBFIsReady(cbf) \/ Range(response.args[1]) \cap DOMAIN cbf.item_to_idx = {})
          => (response.raised = "none" /\ response.value = <<>>)
    /\ (/\ response.op = "get_similar_items"
        /\ ~CBFIsReady(cbf) \/ response.args[1] \notin DOMAIN cbf.item_to_idx)
          => (response.raised = "none" /\ response.value = <<>>)

\* C8 witness: a READY collaborative filter was asked about a user it does
\* not hold and answered [].
C8_Witness_ReadyUnknownUser ==
    /\ response.op = "predict_for_user"
    /\ CFIsReady(cf)
    /\ response.args[1] = "u9"
    /\ response.raised = "none"
    /\ response.value = <<>>

\* The outcome of get_recommendations in the present state.
Outcome(entries, user_id, limit, get_ok, set_ok, db_ok) ==
    GetRecommendations(cf, cbf, entries, get_ok, set_ok,
                       GetUserWatchHistory(WatchProgress[user_id], db_ok),
                       GetUserWatchHistory(WatchProgress[user_id], db_ok),
                       user_id, limit)

\* C9: a cache failure fails no request.  A read that fails has the outcome
\* of a miss (the same list or exception, the same collaborators reached, the
\* same write if any); a write that fails returns the list a successful write
\* returns and leaves the store alone; neither adds an exception.
C9_CacheFailureFailsNoRequest ==
    \A user_id \in RequestUsers, limit \in 1 .. MaxLimit, db_ok \in BOOLEAN :
       LET absent == [cache_store EXCEPT ![CacheKey(user_id)] = None]
       IN /\ \A set_ok \in BOOLEAN :
                LET failed == Outcome(cache_store, user_id, limit, FALSE, set_ok, db_ok)
                    miss == Outcome(absent, user_id, limit, TRUE, set_ok, db_ok)
                IN /\ failed.raised = miss.raised
                   /\ failed.value = miss.value
                   /\ failed.calls = miss.calls
                   /\ failed.store = IF miss.store = absent THEN cache_store ELSE miss.store
          /\ \A get_ok \in BOOLEAN :
                LET written == Outcome(cache_store, user_id, limit, get_ok, TRUE, db_ok)
                    failed == Outcome(cache_store, user_id, limit, get_ok, FALSE, db_ok)
                IN /\ failed.raised = written.raised
                   /\ failed.value = written.value
                   /\ failed.calls = written.calls
                   /\ failed.store = cache_store

\* C9 witness: a call whose cache read and cache write both failed, with an
\* entry in the store, returned a computed list.
C9_Witness_BothFailedListReturned ==
    /\ response.op = "get_recommendations"
    /\ ~response.get_ok /\ ~response.set_ok
    /\ response.raised = "none"
    /\ response.value # <<>>
    /\ "cf.predict_for_user" \in response.calls
    /\ \E user_id \in RequestUsers : ~IsNone(cache_store[CacheKey(user_id)])

\* C10: a call that finds the user's list in the cache returns its first
\* `limit` entries and does nothing else: no sub-model call, no history
\* query, no cache write.
C10_HitReturnsPrefixOnly ==
    \A user_id \in RequestUsers, limit \in 1 .. MaxLimit, set_ok \in BOOLEAN, db_ok \in BOOLEAN :
       ~IsNone(cache_store[CacheKey(user_id)])
          => Outcome(cache_store, user_id, limit, TRUE, set_ok, db_ok)
                = [raised |-> "none",
                   value |-> Truncate(JsonLoads(cache_store[CacheKey(user_id)][1]), limit),
                   store |-> cache_store,
                   calls |-> {"cache.get"}]

\* C10 witness: a call answered from a cached list of two entries with the
\* first one only.
C10_Witness_HitTruncated ==
    /\ response.op = "get_recommendations"
    /\ response.get_ok
    /\ response.calls = {"cache.get"}
    /\ Len(response.value) = 1
    /\ \E user_id \in RequestUsers :
          /\ ~IsNone(cache_store[CacheKey(user_id)])
          /\ Len(cache_store[CacheKey(user_id)][1]) = 2
          /\ response.value = Truncate(JsonLoads(cache_store[CacheKey(user_id)][1]), 1)

\* C11: get_recommendations(user, limit) returns at most `limit` entries on
\* every path (cache hit, merged result, popularity fallback), whether or
\* not the cache and the history store answer, for every limit >= 0.
C11_AtMostLimitEntries ==
    /\ response.op = "get_recommendations" => Len(response.value) <= response.limit
    /\ \A user_id \in RequestUsers, limit \in 0 .. MaxLimit,
          get_ok \in BOOLEAN, set_ok \in BOOLEAN, db_ok \in BOOLEAN :
          Len(Outcome(cache_store, user_id, limit, get_ok, set_ok, db_ok).value) <= limit

\* C11 witness: a call that missed the cache returned one merged entry for
\* limit 1 where a larger limit yields more.
C11_Witness_MergedListCut ==
    /\ response.op = "get_recommendations"
    /\ response.raised = "none"
    /\ response.limit = 1
    /\ Len(response.value) = 1
    /\ "cf.predict_for_user" \in response.calls
    /\ "cbf.item_metadata" \notin response.calls
    /\ \E user_id \in RequestUsers :
          LET more == Outcome([cache_store EXCEPT ![CacheKey(user_id)] = None],
                              user_id, MaxLimit, TRUE, FALSE, TRUE)
          IN /\ Len(more.value) > 1
             /\ "cbf.item_metadata" \notin more.calls
             /\ response.value = Truncate(more.value, 1)

\* The input of the last build call the caller made.
LastFed == feed.done[Len(feed.done)]

C14_AtMostNEntries ==
    response.op \in {"predict_for_user", "recommend_for_user", "get_similar_items"}
       => Len(response.value) <= response.args[2]

\* The community rating the content model holds for an item, 0 if missing.
HeldRating(id) ==
    LET item == CHOOSE x \in Range(cbf.item_metadata) : x.id = id
    IN IF IsNone(item.community_rating) THEN 0 ELSE item.community_rating[1]

\* The catalog items the content model holds that are not in the history.
Unwatched(history) == {x.id : x \in Range(cbf.item_metadata)} \ Range(history)

\* The highest rating among those.
TopRating(history) ==
    CHOOSE r \in {HeldRating(id) : id \in Unwatched(history)} :
       \A id \in Unwatched(history) : HeldRating(id) <= r

\* A request that misses the cache and whose merged list is empty while the
\* content model holds a catalog.
ColdStart(out) == "cbf.item_metadata" \in out.calls /\ cbf.item_metadata # <<>>

\* The list is the `limit` best-rated items of `pool`, best first, tagged
\* "popular", each scored rating / divisor (thousandths).
PopularList(value, pool, limit, divisor) ==
    /\ Len(value) = Min2(limit, Cardinality(pool))
    /\ \A k \in DOMAIN value :
          /\ value[k].reason = "popular"
          /\ value[k].media_id \in pool
          /\ divisor # 0
          /\ value[k].score = (HeldRating(value[k].media_id) * 1000) \div divisor
          /\ \A j \in DOMAIN value : j # k => value[j].media_id # value[k].media_id
          /\ \A id \in pool \ {value[j].media_id : j \in DOMAIN value} :
                HeldRating(id) <= HeldRating(value[k].media_id)
          /\ k > 1 => HeldRating(value[k - 1].media_id) >= HeldRating(value[k].media_id)

\* A user the stores hold nothing about: no interaction, no watch history.
NewUser == "u4"

\* C15 as stated: on a cold start get_recommendations returns only entries
\* tagged "popular", none of them in the user's watch history, ordered by
\* community rating descending (missing counts as 0), each scored
\* rating / top rating; a user with no interactions and no watch history
\* gets a non-empty list.
C15_ColdStartPopularUnwatched ==
    /\ \A user_id \in RequestUsers, limit \in 1 .. MaxLimit, db_ok \in BOOLEAN :
          LET Cold(out) ==
                  ColdStart(out) =>
                     /\ out.raised = "none"
                     /\ PopularList(out.value, Unwatched(WatchProgress[user_id]), limit,
                                    IF Unwatched(WatchProgress[user_id]) = {} THEN 1
                                    ELSE TopRating(WatchProgress[user_id]))
          IN Cold(ComputeRecommendations(cf, cbf,
                      GetUserWatchHistory(WatchProgress[user_id], db_ok),
                      GetUserWatchHistory(WatchProgress[user_id], db_ok), user_id, limit))
    /\ \A limit \in 1 .. MaxLimit :
          cbf.item_metadata # <<>>
             => ComputeRecommendations(cf, cbf, <<>>, <<>>, NewUser, limit).value # <<>>

\* C15, corrected: the items left out are those of the watch history the
\* store returned (none when the store is unavailable), and the divisor is
\* the top rating among the remaining items, or 1.0 when that is not
\* positive.
C15_ColdStartPopularAsReturned ==
    /\ \A user_id \in RequestUsers, limit \in 1 .. MaxLimit, db_ok \in BOOLEAN :
          LET history == GetUserWatchHistory(WatchProgress[user_id], db_ok)
              Cold(out) ==
                  ColdStart(out) =>
                     /\ out.raised = "none"
                     /\ PopularList(out.value, Unwatched(history), limit,
                                    IF Unwatched(history) = {} THEN 1
                                    ELSE IF TopRating(history) > 0 THEN TopRating(history)
                                    ELSE 10)
          IN Cold(ComputeRecommendations(cf, cbf, history, history, user_id, limit))
    /\ \A limit \in 1 .. MaxLimit :
          cbf.item_metadata # <<>>
             => ComputeRecommendations(cf, cbf, <<>>, <<>>, NewUser, limit).value # <<>>

\* C15 witness: a request fell back to the popular items and returned the
\* catalog without the item the user has watched, fewer than `limit`.
C15_Witness_FallbackLeavesWatchedOut ==
    /\ response.op = "get_recommendations"
    /\ response.raised = "none"
    /\ "cbf.item_metadata" \in response.calls
    /\ response.value # <<>>
    /\ Len(response.value) < response.limit
    /\ \A k \in DOMAIN response.value : response.value[k].reason = "popular"
    /\ \E user_id \in RequestUsers :
          /\ Range(WatchProgress[user_id]) \cap {x.id : x \in Range(cbf.item_metadata)} # {}
          /\ {response.value[k].media_id : k \in DOMAIN response.value}
                = Unwatched(WatchProgress[user_id])

\* The cell a filter stores for the pair of interaction x.
StoredCell(c, x) == Cell(c.matrix[1], c.user_to_idx[x.user_id], c.item_to_idx[x.media_id])

\* The resolved scores of the occurrences of x's pair in the input.
PairScores(input, x) ==
    {ResolveScore(input[k]) :
        k \in {j \in DOMAIN input : /\ input[j].user_id = x.user_id
                                      /\ input[j].media_id = x.media_id}}

Reversed(seq) == [k \in DOMAIN seq |-> seq[Len(seq) + 1 - k]]

\* C16: after build_matrix, the cell of every (user, item) pair of the input
\* is stored and holds the maximum of the resolved scores of the pair's
\* occurrences; the input in the opposite order gives the same cells.
C16_CellIsMaxOfOccurrences ==
    (feed.kind = "cf" /\ feed.done # <<>>)
       => \A j \in DOMAIN LastFed :
             /\ <<cf.user_to_idx[LastFed[j].user_id], cf.item_to_idx[LastFed[j].media_id]>>
                   \in DOMAIN cf.matrix[1].data
             /\ StoredCell(cf, LastFed[j]) \in PairScores(LastFed, LastFed[j])
             /\ \A v \in PairScores(LastFed, LastFed[j]) : v <= StoredCell(cf, LastFed[j])
             /\ StoredCell(BuildMatrix(CFInit, Reversed(LastFed)), LastFed[j])
                   = StoredCell(cf, LastFed[j])

\* C16 witness: the input holds a pair twice, the higher score first, both
\* scores positive; the cell holds the first one, neither the last nor the
\* sum.
C16_Witness_HigherFirstKept ==
    /\ feed.kind = "cf" /\ feed.done # <<>>
    /\ response.op = "build_matrix"
    /\ \E j \in DOMAIN LastFed, k \in DOMAIN LastFed :
          /\ j < k
          /\ LastFed[j].user_id = LastFed[k].user_id
          /\ LastFed[j].media_id = LastFed[k].media_id
          /\ ResolveScore(LastFed[j]) > ResolveScore(LastFed[k])
          /\ ResolveScore(LastFed[k]) > 0
          /\ StoredCell(cf, LastFed[j]) = ResolveScore(LastFed[j])

\* C17: a build call with empty input, made in any state, leaves the model
\* not ready with zero counts.
C17_EmptyBuildLeavesNothing ==
    /\ (response.op = "build_matrix" /\ response.args[1] = 0)
          => (~CFIsReady(cf) /\ CFUserCount(cf) = 0 /\ CFItemCount(cf) = 0)
    /\ (response.op = "build_feature_matrix" /\ response.args[1] = 0)
          => (~CBFIsReady(cbf) /\ CBFItemCount(cbf) = 0)

\* The position of the first occurrence of x in seq.
FirstAt(seq, x) == CHOOSE k \in DOMAIN seq : seq[k] = x /\ \A j \in 1 .. (k - 1) : seq[j] # x

\* to_idx and to_id are inverse bijections between exactly the ids of seq
\* and 0 .. count-1, an id seen first having the lower index.
FirstSeenBijection(to_idx, to_id, seq) ==
    /\ DOMAIN to_idx = Range(seq)
    /\ DOMAIN to_id = 0 .. (Cardinality(Range(seq)) - 1)
    /\ \A x \in DOMAIN to_idx : to_idx[x] \in DOMAIN to_id /\ to_id[to_idx[x]] = x
    /\ \A i \in DOMAIN to_id : to_id[i] \in DOMAIN to_idx /\ to_idx[to_id[i]] = i
    /\ \A x \in DOMAIN to_idx, y \in DOMAIN to_idx :
          to_idx[x] < to_idx[y] <=> FirstAt(seq, x) < FirstAt(seq, y)

\* C18: after every non-empty build_matrix the user and the item mappings
\* are inverse bijections onto 0..count-1 in first-seen order, the matrix
\* has user_count rows and item_count columns, and nothing of a previous
\* build is left: the mappings hold the ids of this input only, the matrix
\* its pairs only.
C18_MappingsBijectiveFirstSeen ==
    (feed.kind = "cf" /\ feed.done # <<>>)
       => /\ FirstSeenBijection(cf.user_to_idx, cf.idx_to_user,
                                [j \in DOMAIN LastFed |-> LastFed[j].user_id])
          /\ FirstSeenBijection(cf.item_to_idx, cf.idx_to_item,
                                [j \in DOMAIN LastFed |-> LastFed[j].media_id])
          /\ cf.matrix[1].shape = <<CFUserCount(cf), CFItemCount(cf)>>
          /\ DOMAIN cf.matrix[1].data
                = {<<cf.user_to_idx[LastFed[j].user_id], cf.item_to_idx[LastFed[j].media_id]>> :
                      j \in DOMAIN LastFed}
          /\ response.op = "build_matrix" => IsNone(cf.similarity)

\* C18 witness: a second build_matrix, after one on an input about user u9
\* and item m9, has returned; neither is left, and item m2, seen first in
\* the new input, has index 0.
C18_Witness_SecondBuildReplacesFirst ==
    /\ feed.kind = "cf"
    /\ Len(feed.done) = 2
    /\ response.op = "build_matrix"
    /\ hist["cf"].called = "nonempty" /\ ~hist["cf"].after_called
    /\ "u9" \in Range([j \in DOMAIN feed.done[1] |-> feed.done[1][j].user_id])
    /\ "u9" \notin DOMAIN cf.user_to_idx
    /\ "m9" \notin DOMAIN cf.item_to_idx
    /\ cf.item_to_idx["m2"] = 0 /\ cf.item_to_idx["m1"] = 1
    /\ cf.idx_to_item[0] = "m2"

\* C19: after build_feature_matrix(items) for every non-empty list of
\* catalog items, the item mapping is a bijection between the item ids and
\* the row indices 0..len(items)-1 of the feature matrix, and item_count is
\* the number of matrix rows.
C19_ItemMappingBijective ==
    (feed.kind = "cbf" /\ response.op = "build_feature_matrix")
       => /\ DOMAIN cbf.idx_to_item = 0 .. (Len(LastFed) - 1)
          /\ \A i \in DOMAIN cbf.idx_to_item :
                /\ cbf.idx_to_item[i] \in DOMAIN cbf.item_to_idx
                /\ cbf.item_to_idx[cbf.idx_to_item[i]] = i
          /\ \A x \in DOMAIN cbf.item_to_idx :
                /\ cbf.item_to_idx[x] \in DOMAIN cbf.idx_to_item
                /\ cbf.idx_to_item[cbf.item_to_idx[x]] = x
          /\ ~IsNone(cbf.tfidf_matrix)
          /\ CBFItemCount(cbf) = cbf.tfidf_matrix[1].shape[1]

\* C20: the content model never recommends what was given as input:
\* recommend_for_user(u, watched, n) returns no item whose id is in
\* `watched`, and get_similar_items(item, n) never returns `item`.
C20_InputNeverRecommended ==
    /\ response.op = "recommend_for_user"
          => \A k \in DOMAIN response.value : response.value[k][1] \notin Range(response.args[1])
    /\ response.op = "get_similar_items"
          => \A k \in DOMAIN response.value : response.value[k][1] # response.args[1]

\* The indices of the users with fewer than 2 recorded cells.
LowUsers == {u \in 0 .. (CFUserCount(cf) - 1) : RowNnz(cf.matrix[1], u) < 2}

\* C21: after compute_user_similarity every user with fewer than 2 recorded
\* cells has an all-zero row and an all-zero column in the similarity
\* matrix, is a neighbour of nobody, and gets an empty list from
\* predict_for_user.
C21_LowSignalUsersIsolated ==
    (feed.kind = "cf" /\ CFIsReady(cf))
       => /\ \A u \in LowUsers, v \in 0 .. (CFUserCount(cf) - 1) :
                cf.similarity[1][u][v] = 0 /\ cf.similarity[1][v][u] = 0
          /\ \A v \in 0 .. (CFUserCount(cf) - 1) :
                SimilarUsers(cf.similarity[1][v]) \cap LowUsers = {}
          /\ \A user_id \in DOMAIN cf.user_to_idx, n \in 0 .. MaxLimit :
                cf.user_to_idx[user_id] \in LowUsers
                   => PredictForUser(cf, user_id, n) = Ok(<<>>)

\* C21 witness: u1 has one recorded cell, on an item that u2 and u3 scored
\* too, next to two users above the threshold; predict_for_user for u1
\* returned [].
C21_Witness_LowUserGetsNothing ==
    /\ feed.kind = "cf" /\ CFIsReady(cf)
    /\ response.op = "predict_for_user"
    /\ response.args[1] = "u1"
    /\ "u1" \in DOMAIN cf.user_to_idx
    /\ LowUsers = {cf.user_to_idx["u1"]}
    /\ StoredCell(cf, Interaction("u1", "m1", "watch", None)) > 0
    /\ response.value = <<>>

\* The similarities of the users to the user asked about, and the
\* neighbours predict_for_user selects among them.
TargetSims == cf.similarity[1][cf.user_to_idx[response.args[1]]]

\* The score predict_for_user gives item index i from the neighbours N.
WeightedAverage(N, i) ==
    (SumOver(N, [v \in N |-> TargetSims[v] * Cell(cf.matrix[1], v, i)]) * 100)
       \div SumOver(N, TargetSims)

\* C22: in predict_for_user the contributing neighbours are at most 50
\* users, each of strictly positive similarity to the target and none of a
\* smaller similarity than an excluded candidate (a candidate is excluded
\* only when 50 are selected); the sum of their similarities is strictly
\* positive, and every returned score is the average over them alone.
C22_NeighboursBoundedPositive ==
    (/\ feed.kind = "cf" /\ response.op = "predict_for_user"
     /\ CFIsReady(cf) /\ response.args[1] \in DOMAIN cf.user_to_idx)
       => LET Selected(N) ==
                  /\ Cardinality(N) <= 50
                  /\ \A v \in N : TargetSims[v] > 0
                  /\ \A w \in DOMAIN TargetSims \ N :
                        TargetSims[w] > 0
                           => /\ Cardinality(N) = 50
                              /\ \A v \in N : TargetSims[v] >= TargetSims[w]
                  /\ N # {} => SumOver(N, TargetSims) > 0
                  /\ N = {} => response.value = <<>>
                  /\ \A k \in DOMAIN response.value :
                        response.value[k][2]
                           = WeightedAverage(N, cf.item_to_idx[response.value[k][1]])
          IN Selected(SimilarUsers(TargetSims))

\* C22 witness: of u1's 51 users of positive similarity one was excluded,
\* two users have negative similarity, and the prediction was returned.
C22_Witness_FiftyOfFiftyOne ==
    /\ feed.kind = "cf" /\ response.op = "predict_for_user"
    /\ CFIsReady(cf) /\ response.args[1] = "u1" /\ "u1" \in DOMAIN cf.user_to_idx
    /\ Cardinality({v \in DOMAIN TargetSims : TargetSims[v] > 0}) = 51
    /\ Cardinality({v \in DOMAIN TargetSims : TargetSims[v] < 0}) = 2
    /\ Cardinality(SimilarUsers(TargetSims)) = 50
    /\ response.value # <<>>

\* sim is a square matrix of side `rows`, symmetric, with a zero diagonal.
SquareSymmetricZeroDiagonal(sim, rows) ==
    /\ DOMAIN sim = 0 .. (rows - 1)
    /\ \A u \in DOMAIN sim : DOMAIN sim[u] = 0 .. (rows - 1)
    /\ \A u \in DOMAIN sim : sim[u][u] = 0
    /\ \A u \in DOMAIN sim, v \in DOMAIN sim : sim[u][v] = sim[v][u]

\* C23: whenever a sub-model is READY its similarity matrix is square with
\* as many rows as the current interaction / feature matrix, symmetric, and
\* zero on the diagonal.
C23_ReadySimilarityWellFormed ==
    /\ CFIsReady(cf)
          => (~IsNone(cf.matrix)
              /\ SquareSymmetricZeroDiagonal(cf.similarity[1], cf.matrix[1].shape[1]))
    /\ CBFIsReady(cbf)
          => (~IsNone(cbf.tfidf_matrix)
              /\ SquareSymmetricZeroDiagonal(cbf.similarity[1], cbf.tfidf_matrix[1].shape[1]))

\* The scores of a list, and the smallest and the largest of them.
ScoresOf(list) == {list[k][2] : k \in DOMAIN list}

Lowest(list) == CHOOSE x \in ScoresOf(list) : \A y \in ScoresOf(list) : x <= y

Highest(list) == CHOOSE x \in ScoresOf(list) : \A y \in ScoresOf(list) : x >= y

\* C24: _normalize maps a non-empty list to (s - min) / (max - min) per
\* entry, ids and order kept, so that the smallest output is 0 and the
\* largest 1; every output is 0.5 when all scores are equal; [] maps to [].
C24_NormalizeMinMax ==
    response.op = "_normalize"
       => LET Normalized(in, out) ==
                  /\ Len(out) = Len(in)
                  /\ \A k \in DOMAIN in : out[k][1] = in[k][1]
                  /\ in # <<>>
                        => IF Lowest(in) = Highest(in)
                           THEN \A k \in DOMAIN out : out[k][2] = 500
                           ELSE /\ \A k \in DOMAIN out :
                                      out[k][2] * (Highest(in) - Lowest(in))
                                         = (in[k][2] - Lowest(in)) * 1000
                                /\ Lowest(out) = 0 /\ Highest(out) = 1000
          IN Normalized(response.args[1], response.value)

\* C24 witness: a list of three different scores came back with 0 for the
\* lowest, 1 for the highest and 0.375 in between, in the order given.
C24_Witness_ThreeScoresSpread ==
    /\ response.op = "_normalize"
    /\ Len(response.args[1]) = 3
    /\ response.args[1][1][2] = 500 /\ response.args[1][2][2] = 1000
    /\ response.args[1][3][2] = 200
    /\ response.value[1][2] = 375 /\ response.value[2][2] = 1000 /\ response.value[3][2] = 0

\* The ids of a list of (id, score, ...) entries.
IdsOf(list) == {list[k][1] : k \in DOMAIN list}

\* The min-max share of an item in a list of distinct ids, 0 when the list
\* does not hold it.
NormShare(list, id) ==
    IF id \notin IdsOf(list) THEN 0
    ELSE IF Lowest(list) = Highest(list) THEN 500
    ELSE LET k == CHOOSE j \in DOMAIN list : list[j][1] = id
         IN ((list[k][2] - Lowest(list)) * 1000) \div (Highest(list) - Lowest(list))

\* C25: _merge_scores returns each media id of either input list exactly
\* once, with score collaborative_weight * cf_norm + content_weight * cb_norm
\* (0 for a source without the item), sorted by descending combined score.
C25_MergeWeightedUnionSorted ==
    response.op = "_merge_scores"
       => LET Merged(cf_results, cb_results, out) ==
                  /\ IdsOf(out) = IdsOf(cf_results) \cup IdsOf(cb_results)
                  /\ Len(out) = Cardinality(IdsOf(out))
                  /\ \A k \in DOMAIN out :
                        out[k][2] * 10
                           = COLLABORATIVE_WEIGHT * NormShare(cf_results, out[k][1])
                               + CONTENT_WEIGHT * NormShare(cb_results, out[k][1])
                  /\ \A k \in 1 .. (Len(out) - 1) : out[k][2] >= out[k + 1][2]
          IN Merged(response.args[1], response.args[2], response.value)

\* C25 witness: three collaborative and two content items sharing m2 and m3
\* were merged into three entries, m3 first with 0.6 * 0.375 + 0.4 * 1 and
\* m1, lowest in its only list, last with 0.
C25_Witness_SharedItemsAdded ==
    /\ response.op = "_merge_scores"
    /\ response.args[1] = <<<<"m2", 1000>>, <<"m3", 500>>, <<"m1", 200>>>>
    /\ response.args[2] = <<<<"m2", 400>>, <<"m3", 1000>>>>
    /\ Len(response.value) = 3
    /\ response.value[1][1] = "m3" /\ response.value[1][2] = 625
    /\ response.value[2][1] = "m2" /\ response.value[2][2] = 600
    /\ response.value[3][1] = "m1" /\ response.value[3][2] = 0

\* C26: the reason tag of a merged entry names a source that produced the
\* item: "users_like_you" entries are in the collaborative result list and
\* "similar_to_watched" entries in the content-based result list.
C26_ReasonNamesProducingSource ==
    response.op = "_merge_scores"
       => \A k \in DOMAIN response.value :
             /\ response.value[k][3] = "users_like_you"
                   => response.value[k][1] \in IdsOf(response.args[1])
             /\ response.value[k][3] = "similar_to_watched"
                   => response.value[k][1] \in IdsOf(response.args[2])

\* A step that stores something under a "recs:" key.
WritesCache(key) == cache_store'[key] # cache_store[key] /\ ~IsNone(cache_store'[key])

\* Whatever a step stores is the non-empty list that get_recommendations
\* returns in that step.
WriteIsReturned ==
    \A key \in DOMAIN cache_store :
       WritesCache(key)
          => /\ response'.op = "get_recommendations"
             /\ response'.value # <<>>
             /\ JsonLoads(cache_store'[key][1]) = response'.value

\* A get_recommendations call that reached set_cached, Redis answering, left
\* the returned list under the user's key.
MissIsWritten ==
    (/\ response'.op = "get_recommendations"
     /\ response' # response
     /\ "cache.set" \in response'.calls
     /\ response'.set_ok)
       => \E user_id \in RequestUsers :
             cache_store'[CacheKey(user_id)] = Some(JsonDumps(response'.value))

CFBuiltFrom(interactions) ==
    LET From(one) ==
            /\ cf.user_to_idx = one.user_to_idx /\ cf.idx_to_user = one.idx_to_user
            /\ cf.item_to_idx = one.item_to_idx /\ cf.idx_to_item = one.idx_to_item
            /\ cf.matrix = one.matrix
            /\ IsNone(cf.similarity) \/ cf.similarity = one.similarity
    IN From(RebuildModels(CFInit, CBFInit, interactions, <<>>).cf)

\* The worker's rebuild and the handler's rebuild have both ended.
BothRebuildsEnded ==
    /\ rb["executor"].pc \in {"returned", "raised"}
    /\ response.op = "rebuild_models"

\* C28: when two rebuild_models calls overlap in time, then after both have
\* finished the index mappings, the matrix and the similarity of a sub-model
\* all derive from one and the same input snapshot.
C28_OverlapLeavesOneSnapshot ==
    BothRebuildsEnded
       => \E g \in DOMAIN StoreGenerations, db_ok \in BOOLEAN :
             CFBuiltFrom(GetUserInteractions(StoreGenerations[g].interactions,
                                             MAX_INTERACTIONS, db_ok))

\* A step of a rebuild_models call: it is the only one to change a filter
\* or the time of the last rebuild.
RebuildStepTaken ==
    \/ cf' # cf \/ cbf' # cbf \/ last_rebuild' # last_rebuild
    \/ (response'.op = "rebuild_models" /\ response' # response)

\* C29: rebuild_models leaves the result cache unchanged, deleting and
\* rewriting no "recs:" entry, so a list cached before a rebuild is still
\* what get_recommendations returns after the rebuild (its first `limit`
\* entries), until the entry expires.
C29_RebuildLeavesCache ==
    /\ [][RebuildStepTaken => cache_store' = cache_store]_vars
    /\ [](response.op = "rebuild_models"
            => \A user_id \in RequestUsers, limit \in 1 .. MaxLimit :
                  ~IsNone(cache_store[CacheKey(user_id)])
                     => Outcome(cache_store, user_id, limit, TRUE, TRUE, TRUE).value
                           = Truncate(JsonLoads(cache_store[CacheKey(user_id)][1]), limit))

\* C29 witness: a rebuild has ended, the user's list cached before it is
\* still there, and it is not the list the rebuilt models would give.
C29_Witness_StaleListKept ==
    /\ response.op = "rebuild_models"
    /\ response.raised = "none"
    /\ ~IsNone(cache_store[CacheKey("u1")])
    /\ Outcome([key \in DOMAIN cache_store |-> None], "u1", MaxLimit, TRUE, TRUE, TRUE).value
          # JsonLoads(cache_store[CacheKey("u1")][1])
    /\ Outcome(cache_store, "u1", MaxLimit, TRUE, TRUE, TRUE).value
          = JsonLoads(cache_store[CacheKey("u1")][1])

\* The cache with no entry.
EmptyCache == [key \in DOMAIN cache_store |-> None]

\* C30: cache transparency.  With the models and the stores as they are, for
\* every pair of limits L1 and L2, get_recommendations(user, L2) called after
\* get_recommendations(user, L1) populated the cache returns the list that
\* get_recommendations(user, L2) returns on an empty cache.
C30_CacheTransparent ==
    \A user_id \in RequestUsers, L1 \in 1 .. MaxLimit, L2 \in 1 .. MaxLimit :
       LET Populated(entries) ==
               ~IsNone(entries[CacheKey(user_id)])
                  => Outcome(entries, user_id, L2, TRUE, TRUE, TRUE).value
                        = Outcome(EmptyCache, user_id, L2, TRUE, TRUE, TRUE).value
       IN Populated(Outcome(EmptyCache, user_id, L1, TRUE, TRUE, TRUE).store)
====
